---- MODULE Spec2Model ----
(***************************************************************************)
(* A model of the incremental sync engine of the jxd package: the          *)
(* pagination walkers (jxd/api.py and jxd/sportmonks_client.py), the       *)
(* resumable team stream, the fixture-window sync and the odds store       *)
(* (jxd/sync.py over the tables of jxd/models.py).                         *)
(*                                                                         *)
(* Conventions.  Python's None is modelled by 0 where the code only tests  *)
(* truthiness of an integer (`if next_page`, `current or page`) and by the *)
(* string NULL for nullable text columns.  Each component has its own      *)
(* specification; the variables of the other components stay at their      *)
(* idle values.                                                            *)
(***************************************************************************)
EXTENDS Integers, Sequences, FiniteSets, TLC

VARIABLES
    \* ---- pagination walker (fetch_collection) ----
    wImpl,      \* which fetch_collection runs: "api" or "sm"
    wStyle,     \* pagination signal of the honest provider, "any" otherwise
    wNum,       \* number of pages of the honest provider's collection
    wLast,      \* size of its last page
    wPc,        \* "idle" | "req" (page wPage is requested) | "resp" | "done"
    wPage,      \* the page number of the current request
    wMeta,      \* pagination metadata of the response in hand
    wN,         \* number of records of the response in hand
    wLog,       \* records yielded so far by this call, in order
    \* ---- resumable stream (sync_teams / sync_players) ----
    sKind,      \* "teams" | "players": which stream, hence which cursor key
    sStyle,     \* pagination signal of the provider
    sNum,       \* the upstream collection holds the ids 1..sNum
    sCursor,    \* committed sync_state value of the stream's key, 0 if no row
    sRows,      \* ids of the committed rows of the stream's table
    sPc,        \* "idle" | "fetch" | "items" | "done" | "failed"
    sIdAfter,   \* id_after of the running call, 0 for None
    sPage,      \* page of the running walk
    sQueue,     \* records of the page in hand not yet processed
    sMeta,      \* pagination metadata of the page in hand
    sRaised,    \* the last call ended by raising to its caller
    sDone,      \* history: ids whose upsert was committed, in commit order
    sBoundary,  \* history: last ids of the pages processed to their end
    sMidPage,   \* history: a run was interrupted in the middle of a page
    sReqFailed, \* history: the last page request of the stream failed
    \* ---- fixture window sync (sync_fixtures_between) ----
    fUp,        \* the raw fixtures the provider serves for the window, in order
    fDetails,   \* with_details of the window's sync
    fLimit,     \* limit of the window's sync, 0 for None
    fFixtures,  \* committed rows of fixtures
    fParts,     \* committed rows of fixture_participants
    fTeamStats, \* committed rows of team_stats
    fPlayerStats, \* committed rows of player_stats
    fPlayers,   \* committed rows of players
    fRuns,      \* history: completed runs of the window's sync
    \* ---- odds store (sync_odds / _store_odds_rows) ----
    oFeed,      \* the odds rows the provider serves for the fixture, in order
    oRows,      \* committed rows of odds_outcomes
    oBookmakers, \* ids of the committed rows of bookmakers
    oMarkets,   \* ids of the committed rows of markets
    oErr,       \* how the last sync_odds ended: "none" or the error raised
    oSameHash,  \* history: every row of the last call had its raw_hash stored
    oPriceOnly, \* history: the last call's row differed from a stored one only in value
    oAssigned,  \* history: rows the last call assigned the columns of (940-942)
    oChanged,   \* history: stored rows the last call changed
    oInserted,   \* history: rows the last call inserted
    \* ---- rate limiter (api.RateLimiter behind _request) ----
    rThreads,   \* the threads that call _request on the one client
    rMinInterval, \* min_interval = 3600 / requests_per_hour, in ticks
    rClock,     \* time.time(), in ticks
    rLastTs,    \* RateLimiter._last_ts
    rPc,        \* per thread: "idle" | "read" | "sleep" | "stamp" | "send"
    rNow,       \* per thread: the local now of wait()
    rWake,      \* per thread: the time its time.sleep() ends, 0 if it did not sleep
    rPath,      \* per thread: the endpoint of its request
    rPrev,      \* history: the release before the last one
    rCur,        \* history: the last request released by wait()
    \* ---- one request of a client (api._request / sportmonks_client.request) ----
    qImpl,      \* which client: "api" or "sm"
    qMaxRetries, \* the retry limit configured (max_retries; api.py takes none)
    qPc,        \* "idle" | "try" | "resp" | "done"
    qAttempt,   \* attempts made so far
    qBackoff,   \* backoff, the next delay in seconds
    qResp,      \* the outcome of the attempt in hand
    qSleeps,    \* history: the delays slept, in order
    qResult,     \* what the call gave its caller
    \* ---- _upsert on one table ----
    uTable,     \* committed rows of the table: id, name, country, updated_at
    uClock,     \* datetime.utcnow(), one tick per call
    uData,      \* history: the field map of the last call
    uFound,      \* history: the last call found a row of its key
    \* ---- sync operations as concurrent workers ----
    kOp,        \* per worker: the sync operation it runs
    kItem,      \* per worker: the record in hand, <<its id, the id it refers to>>
    kIdx,       \* per worker: which write of the record is in hand
    kPhase,     \* per worker: "idle" | "read" | "write" | "done"
    kFound,     \* per worker: what its read found
    kRows,      \* committed rows, as <<table, primary key>>
    kErr,        \* per worker: "none" or the error its write raised
    \* ---- fixture scores ----
    gRaw,       \* the scores of the raw fixture in hand
    gMapped,    \* what _fixture_mapper made of it
    gTable,     \* the fixtures table (id, home_score, away_score)
    gPrev,       \* the fixtures table before the last sync
    \* ---- sync_history_window ----
    hStart,     \* start_dt, a day number
    hEnd,       \* end_dt
    hLimit,     \* limit, NoLimit for None
    hCursor,    \* cursor
    hTotal,     \* total
    hChunks,    \* the passes issued so far: [start, end, ok]
    hStore,     \* the chunks whose upserts are committed
    hPc,         \* "loop" | "returned" | "raised"
    \* ---- one sync_fixtures_between pass, record by record ----
    pN,         \* the records of the window are 1..pN, PerPage to a page
    pBad,       \* the records _fixture_mapper cannot map
    pLimit,     \* limit, 0 for none
    pFetched,   \* pages fetched
    pNext,      \* the next record of the loop
    pSession,   \* records upserted in the session
    pStore,     \* records committed
    pPc,        \* "walk" | "returned" | "raised"
    pErr,        \* "none" | "request" | "mapping"
    \* ---- export of the recent seasons ----
    eRows,      \* the seasons table, in the order of the SELECT
    eDryRun,    \* --dry-run
    eKeep,      \* keep_by_league: per league the ids of the seasons kept
    eTodo,      \* the leagues the delete loop has still to visit
    eExport,    \* the fixtures of the downstream export
    ePrimary,   \* the fixtures of the primary store
    eDeleted,   \* the fixtures the deletes removed
    ePc,         \* "start" | "delete" | "done" | "raised"
    \* ---- team and player form ----
    mKind,      \* "team" for compute_team_form, "player" for compute_player_form
    mFixtures,  \* the fixtures the entity took part in, by id
    mSample,    \* sample_size
    mOld,       \* the Form row of (entity, sample_size) before the call
    mForm,      \* the Form row of (entity, sample_size)
    mResult,    \* what the call returned
    mPc,         \* "call" | "done"
    \* ---- rate_over ----
    vImpl,      \* "team" (team_value_bets.py) or "player" (player_one_shot_value_bets.py)
    vValues,    \* values
    vLine2,     \* twice the line
    vMin,       \* min_samples
    vResult,    \* what the call gave
    vPc,         \* "call" | "done"
    \* select_best_rate / best_rate
    bImpl,        \* "team": select_best_rate; "player": best_rate
    bFixtures,    \* the entity's values of the key, newest first (NoValue: None)
    bSizes,       \* the sample sizes, in the order they are tested
    bLine2,       \* twice the line
    bMin,         \* MIN_SAMPLES / min_samples
    bIdx,         \* index of the sample size the loop is at
    bBest,        \* best
    bPc,           \* "loop", "done", "raised"
    \* the Form tables
    aFixtures,    \* the store: fixtures, their two participants and the player's stat line
    aSizes,       \* the sample_sizes a bulk run is called with
    aTeamForms,   \* the rows of team_forms
    aPlayerForms, \* the rows of player_forms
    aErr,         \* the exception of the last call, "none" when it returned
    aLast,        \* the last call: "team", "player", "bulk"
    aPrev,        \* the two tables as each bulk run found them
    aOps,          \* calls made
    \* normalize_odds
    nOutcomes,    \* the rows of odds_outcomes
    nLatest,      \* the rows of odds_latest
    nCount,       \* the return value
    nPc           \* "call", "done"

wvars == <<wImpl, wStyle, wNum, wLast, wPc, wPage, wMeta, wN, wLog>>

svars == <<sKind, sStyle, sNum, sCursor, sRows, sPc, sIdAfter, sPage, sQueue,
           sMeta, sRaised, sDone, sBoundary, sMidPage, sReqFailed>>

ftables == <<fFixtures, fParts, fTeamStats, fPlayerStats, fPlayers>>

fvars == <<fUp, fDetails, fLimit, ftables, fRuns>>

ovars == <<oFeed, oRows, oBookmakers, oMarkets, oErr, oSameHash, oPriceOnly,
           oAssigned, oChanged, oInserted>>

rvars == <<rThreads, rMinInterval, rClock, rLastTs, rPc, rNow, rWake, rPath,
           rPrev, rCur>>

qvars == <<qImpl, qMaxRetries, qPc, qAttempt, qBackoff, qResp, qSleeps, qResult>>

uvars == <<uTable, uClock, uData, uFound>>

kvars == <<kOp, kItem, kIdx, kPhase, kFound, kRows, kErr>>

gvars == <<gRaw, gMapped, gTable, gPrev>>

hvars == <<hStart, hEnd, hLimit, hCursor, hTotal, hChunks, hStore, hPc>>

pvars == <<pN, pBad, pLimit, pFetched, pNext, pSession, pStore, pPc, pErr>>

evars == <<eRows, eDryRun, eKeep, eTodo, eExport, ePrimary, eDeleted, ePc>>

mvars == <<mKind, mFixtures, mSample, mOld, mForm, mResult, mPc>>

vvars == <<vImpl, vValues, vLine2, vMin, vResult, vPc>>

bvars == <<bImpl, bFixtures, bSizes, bLine2, bMin, bIdx, bBest, bPc>>

avars == <<aFixtures, aSizes, aTeamForms, aPlayerForms, aErr, aLast, aPrev, aOps>>

nvars == <<nOutcomes, nLatest, nCount, nPc>>

vars == <<wvars, svars, fvars, ovars, rvars, qvars, uvars, kvars, gvars, hvars, pvars, evars, mvars, vvars, bvars, avars, nvars>>

\* what a step of one component leaves alone: the other components
exceptW == <<svars, fvars, ovars, rvars, qvars, uvars, kvars, gvars, hvars, pvars, evars, mvars, vvars, bvars, avars, nvars>>

exceptS == <<wvars, fvars, ovars, rvars, qvars, uvars, kvars, gvars, hvars, pvars, evars, mvars, vvars, bvars, avars, nvars>>

exceptF == <<wvars, svars, ovars, rvars, qvars, uvars, kvars, gvars, hvars, pvars, evars, mvars, vvars, bvars, avars, nvars>>

exceptO == <<wvars, svars, fvars, rvars, qvars, uvars, kvars, gvars, hvars, pvars, evars, mvars, vvars, bvars, avars, nvars>>

exceptR == <<wvars, svars, fvars, ovars, qvars, uvars, kvars, gvars, hvars, pvars, evars, mvars, vvars, bvars, avars, nvars>>

exceptQ == <<wvars, svars, fvars, ovars, rvars, uvars, kvars, gvars, hvars, pvars, evars, mvars, vvars, bvars, avars, nvars>>

exceptU == <<wvars, svars, fvars, ovars, rvars, qvars, kvars, gvars, hvars, pvars, evars, mvars, vvars, bvars, avars, nvars>>

exceptK == <<wvars, svars, fvars, ovars, rvars, qvars, uvars, gvars, hvars, pvars, evars, mvars, vvars, bvars, avars, nvars>>

exceptG == <<wvars, svars, fvars, ovars, rvars, qvars, uvars, kvars, hvars, pvars, evars, mvars, vvars, bvars, avars, nvars>>

exceptH == <<wvars, svars, fvars, ovars, rvars, qvars, uvars, kvars, gvars, pvars, evars, mvars, vvars, bvars, avars, nvars>>

exceptP == <<wvars, svars, fvars, ovars, rvars, qvars, uvars, kvars, gvars, hvars, evars, mvars, vvars, bvars, avars, nvars>>

exceptE == <<wvars, svars, fvars, ovars, rvars, qvars, uvars, kvars, gvars, hvars, pvars, mvars, vvars, bvars, avars, nvars>>

exceptM == <<wvars, svars, fvars, ovars, rvars, qvars, uvars, kvars, gvars, hvars, pvars, evars, vvars, bvars, avars, nvars>>

exceptV == <<wvars, svars, fvars, ovars, rvars, qvars, uvars, kvars, gvars, hvars, pvars, evars, mvars, bvars, avars, nvars>>

exceptB == <<wvars, svars, fvars, ovars, rvars, qvars, uvars, kvars, gvars, hvars, pvars, evars, mvars, vvars, avars, nvars>>

exceptA == <<wvars, svars, fvars, ovars, rvars, qvars, uvars, kvars, gvars, hvars, pvars, evars, mvars, vvars, bvars, nvars>>

exceptN == <<wvars, svars, fvars, ovars, rvars, qvars, uvars, kvars, gvars, hvars, pvars, evars, mvars, vvars, bvars, avars>>

----------------------------------------------------------------------------
(* Bounds of the model. *)
MaxPage == 3        \* page numbers and collection sizes range over 1..MaxPage
PerPage == 2        \* the per_page of a request, scaled down from 50/200
MaxIds == 4         \* a resumable collection holds at most the ids 1..MaxIds
MaxFix == 2         \* a window holds at most MaxFix fixtures
MaxRuns == 3        \* the same window is synced at most MaxRuns times
MaxFeed == 2        \* an odds feed holds at most MaxFeed rows
MaxOddsRows == 4    \* odds_outcomes holds at most MaxOddsRows rows
MaxInterval == 3    \* min_interval ranges over 2..MaxInterval ticks of the clock
MaxTicks == 5       \* the clock advances at most MaxTicks ticks
MaxRetries == 7     \* the retry limit ranges over 1..MaxRetries
MaxUpserts == 3     \* at most MaxUpserts upserts are made on the table
MaxKeys == 2        \* the ids of the records concurrent workers sync are 1..MaxKeys
MaxGoals == 2       \* goals of a score entry are 0..MaxGoals
MaxEntries == 2     \* a scores array holds at most MaxEntries entries
MaxBack == 200      \* days_back of the history window is 0..MaxBack
MaxForward == 1     \* days_forward of the history window is 0..MaxForward
MaxLimit == 2       \* the limit of the history window is None or 0..MaxLimit
MaxCount == 2       \* one fixtures-between pass stores 0..MaxCount fixtures
MaxSeasons == 3     \* the seasons table holds 1..MaxSeasons rows
MaxLeagues == 2     \* their leagues are 1..MaxLeagues
MaxDate == 3        \* start and end dates are 1..MaxDate, or null
MaxSample == 2      \* sample_size of a form is 1..MaxSample
MaxValues == 3      \* rate_over gets up to MaxValues values (and the sample of the example)
MaxValue == 2       \* each None or 0..MaxValue
MaxLine2 == 5       \* the line is 1/2, 1, ..., MaxLine2/2
MaxMin == 2         \* min_samples is 0..MaxMin

----------------------------------------------------------------------------
(* Pagination metadata: {current_page, total_pages, has_more, next_page}.  *)
(* next_page is absent, an integer, a URL carrying ?page=k, a URL without  *)
(* a page parameter, or a string of digits.                                *)

NoToken == [kind |-> "none", page |-> 0]

Tokens ==
    {NoToken, [kind |-> "urlnopage", page |-> 0]}
    \cup {[kind |-> k, page |-> p] : k \in {"int", "url", "digits"}, p \in 1..MaxPage}

NoMeta == [present |-> FALSE, next |-> NoToken, has_more |-> "none",
           current |-> 0, total |-> 0]

Metas ==
    {NoMeta} \cup
    {[present |-> TRUE, next |-> t, has_more |-> h, current |-> c, total |-> tp] :
        t \in Tokens, h \in {"none", "true", "false"},
        c \in 0..MaxPage, tp \in 0..MaxPage}

(* api.py 112-142: the page after `page`, 0 for break. The number of       *)
(* records of the page plays no part.                                      *)
ApiNextPage(meta, page) ==
    IF meta.next.kind \in {"int", "url", "digits"}
    THEN meta.next.page
    ELSE IF meta.has_more = "true"
    THEN (IF meta.current # 0 THEN meta.current ELSE page) + 1
    ELSE IF meta.current # 0 /\ meta.total # 0 /\ meta.current < meta.total
    THEN meta.current + 1
    ELSE 0

(* sportmonks_client.py 94-121 after the empty-page return of 88-89:       *)
(* int(next_page) raises on a URL and leaves next_page_int None.           *)
SmNextPage(meta, page, n) ==
    IF n = 0 THEN 0
    ELSE IF meta.present
    THEN LET cur == IF meta.current # 0 THEN meta.current ELSE page
             nxt == IF meta.next.kind \in {"int", "digits"} THEN meta.next.page ELSE 0
         IN  IF nxt # 0 /\ nxt > cur THEN nxt
             ELSE IF meta.total # 0 /\ cur < meta.total THEN cur + 1
             ELSE IF meta.has_more = "true" THEN cur + 1
             ELSE 0
    ELSE IF n < PerPage THEN 0 ELSE page + 1

NextPage(impl, meta, page, n) ==
    IF impl = "api" THEN ApiNextPage(meta, page) ELSE SmNextPage(meta, page, n)

----------------------------------------------------------------------------
(* The honest provider: a finite collection of num pages, all of PerPage   *)
(* records but the last, which has `last`; it signals the next page in one *)
(* of three styles.                                                        *)

Styles == {"url", "has_more", "total_pages"}

PageSize(num, last, p) ==
    IF p < num THEN PerPage ELSE IF p = num THEN last ELSE 0

PageItems(p, n) == [i \in 1..n |-> (p - 1) * PerPage + i]

AllRecords(num, last) == [i \in 1..((num - 1) * PerPage + last) |-> i]

HonestMeta(style, num, p) ==
    [present |-> TRUE,
     next |-> IF style = "url" /\ p < num
              THEN [kind |-> "url", page |-> p + 1] ELSE NoToken,
     has_more |-> IF style = "has_more"
                  THEN (IF p < num THEN "true" ELSE "false") ELSE "none",
     current |-> IF style = "total_pages" THEN p ELSE 0,
     total |-> IF style = "total_pages" THEN num ELSE 0]

----------------------------------------------------------------------------
(* The resumable streams of sync.py: sync_teams() without a season and     *)
(* sync_players(season_id) without a team.  The stream reads its cursor,   *)
(* walks the collection with filters=idAfter:<cursor> through api.py's     *)
(* fetch_collection and, per record, upserts it and calls _set_state,      *)
(* which commits the session.  The cursor is written as str(id) and read   *)
(* back with int(); on the ids 1..sNum that round trip is exact, so the    *)
(* model keeps the integer.                                                *)

LastOf(seq) == IF seq = <<>> THEN 0 ELSE seq[Len(seq)]

\* the provider honours idAfter: it serves the ids above id_after, in
\* ascending order, PerPage to a page
Remaining(num, after) == IF num > after THEN num - after ELSE 0

FilteredPages(num, after) == (Remaining(num, after) + PerPage - 1) \div PerPage

FilteredPage(num, after, p) ==
    LET lo == after + (p - 1) * PerPage
        n  == IF Remaining(num, after) - (p - 1) * PerPage >= PerPage THEN PerPage
              ELSE IF Remaining(num, after) - (p - 1) * PerPage > 0
              THEN Remaining(num, after) - (p - 1) * PerPage
              ELSE 0
    IN  [i \in 1..n |-> lo + i]

\* sync.py 311-318 / 342-349: id_after = int(_get_state(key)) or None;
\* api.py 104: page = 1
StreamStart ==
    /\ sPc \in {"idle", "done", "failed"}
    /\ sIdAfter' = sCursor
    /\ sPage' = 1
    /\ sPc' = "fetch"
    /\ sQueue' = <<>>
    /\ sMeta' = NoMeta
    /\ sRaised' = FALSE
    /\ sReqFailed' = FALSE
    /\ UNCHANGED <<sKind, sStyle, sNum, sCursor, sRows, sDone, sBoundary, sMidPage>>
    /\ UNCHANGED exceptS

\* api.py 106-108: the request for page sPage succeeds
StreamFetch ==
    /\ sPc = "fetch"
    /\ sQueue' = FilteredPage(sNum, sIdAfter, sPage)
    /\ sMeta' = HonestMeta(sStyle, FilteredPages(sNum, sIdAfter), sPage)
    /\ sPc' = "items"
    /\ UNCHANGED <<sKind, sStyle, sNum, sCursor, sRows, sIdAfter, sPage, sRaised,
                   sDone, sBoundary, sMidPage, sReqFailed>>
    /\ UNCHANGED exceptS

\* the value _set_state is given for a record: str(item.get("id"))
CursorValueLastOfPage(item, queue) == LastOf(queue)

CursorValueBeforeRecord(item, queue) == item - 1

CursorValueNextRecord(item, queue) == item + 1

CursorValue(item, queue) == item

\* sync.py 319-323 / 351-355: one round of the for loop: _upsert the
\* record, then _set_state(key, str(id)), whose session.commit() makes the
\* row and the cursor durable together
StreamItem ==
    /\ sPc = "items"
    /\ sQueue # <<>>
    /\ LET item == Head(sQueue)
       IN  /\ sRows' = sRows \cup {item}
           /\ sCursor' = CursorValue(item, sQueue)
           /\ sDone' = Append(sDone, item)
           /\ sBoundary' = IF Len(sQueue) = 1 THEN sBoundary \cup {item} ELSE sBoundary
    /\ sQueue' = Tail(sQueue)
    /\ UNCHANGED <<sKind, sStyle, sNum, sPc, sIdAfter, sPage, sMeta, sRaised,
                   sMidPage, sReqFailed>>
    /\ UNCHANGED exceptS

\* api.py 112-142 when the page is used up: the next page, or the walk ends
\* and sync.py 324 / 356 commits and returns
StreamPageEnd ==
    /\ sPc = "items"
    /\ sQueue = <<>>
    /\ LET nxt == ApiNextPage(sMeta, sPage)
       IN  /\ sPc' = IF nxt = 0 THEN "done" ELSE "fetch"
           /\ sPage' = IF nxt = 0 THEN sPage ELSE nxt
    /\ sMeta' = NoMeta
    /\ UNCHANGED <<sKind, sStyle, sNum, sCursor, sRows, sIdAfter, sQueue, sRaised,
                   sDone, sBoundary, sMidPage, sReqFailed>>
    /\ UNCHANGED exceptS

\* what a failed page request leaves: _request raises (api.py 64-68, or the
\* transport error of session.get), fetch_collection and the stream have no
\* handler, so the call ends by raising and writes nothing
RequestFailedSoft(cursor) == [pc |-> "done", raised |-> FALSE, cursor |-> cursor]

RequestFailed(cursor) == [pc |-> "failed", raised |-> TRUE, cursor |-> cursor]

\* api.py 107 raising: a transport error or a non-ok status
StreamFetchFail ==
    /\ sPc = "fetch"
    /\ LET out == RequestFailed(sCursor)
       IN  /\ sPc' = out.pc
           /\ sRaised' = out.raised
           /\ sCursor' = out.cursor
    /\ sReqFailed' = TRUE
    /\ sQueue' = <<>>
    /\ sMeta' = NoMeta
    /\ UNCHANGED <<sKind, sStyle, sNum, sRows, sIdAfter, sPage, sDone, sBoundary,
                   sMidPage>>
    /\ UNCHANGED exceptS

\* the process is interrupted: its locals and its uncommitted session are
\* lost, the committed rows and cursor stay
StreamCrash ==
    /\ sPc \in {"fetch", "items"}
    /\ sPc' = "idle"
    /\ sMidPage' = (sMidPage \/ (sPc = "items" /\ sQueue # <<>>
                                   /\ Len(sQueue) < Len(FilteredPage(sNum, sIdAfter, sPage))))
    /\ sQueue' = <<>>
    /\ sMeta' = NoMeta
    /\ sIdAfter' = 0
    /\ sPage' = 0
    /\ UNCHANGED <<sKind, sStyle, sNum, sCursor, sRows, sRaised, sDone, sBoundary,
                   sReqFailed>>
    /\ UNCHANGED exceptS

StreamStep ==
    \/ StreamStart \/ StreamFetch \/ StreamItem \/ StreamPageEnd
    \/ StreamFetchFail \/ StreamCrash

----------------------------------------------------------------------------
(* The store.  A table is a set of rows, a row a record of its columns.    *)
(* NULL is the null of a text column; an integer key that is None is 0.    *)

NULL == "NULL"

MaxOf(S) == IF S = {} THEN 0 ELSE CHOOSE m \in S : \A x \in S : x <= m

\* an INTEGER PRIMARY KEY left None on INSERT gets the largest id plus one
NextId(table) == MaxOf({r.id : r \in table}) + 1

\* every text column the map does not name is cleared
MergeClearing(row, data) ==
    [c \in DOMAIN row |-> IF c \in DOMAIN data THEN data[c]
                          ELSE IF c \in {"id", "updated_at"} THEN row[c] ELSE NULL]

\* columns of `data` replace those of the row, the others stay
Merge(row, data) ==
    [c \in DOMAIN row |-> IF c \in DOMAIN data THEN data[c] ELSE row[c]]

\* data["id"] if "id" in data and it is not None, else 0
IdOf(data) == IF "id" \in DOMAIN data THEN data.id ELSE 0

(* sync.py 39-46, _upsert: session.get(model, data["id"]) finds the row of *)
(* that primary key, or nothing when the id is None or data has no "id"; a *)
(* found row gets the fields of data, otherwise a new row is added.        *)
Upsert(table, data) ==
    IF IdOf(data) # 0 /\ \E r \in table : r.id = data.id
    THEN {IF r.id = data.id THEN Merge(r, data) ELSE r : r \in table}
    ELSE IF IdOf(data) # 0
    THEN table \cup {data}
    ELSE table \cup {[id |-> NextId(table)] @@ data}

(* The query-then-write of _store_participants, _store_team_stats and      *)
(* _store_player_stats: the row of the composite key `key` gets the fields *)
(* of data, or a new row is added.                                         *)
UpsertByKey(table, key, data) ==
    IF \E r \in table : \A c \in key : r[c] = data[c]
    THEN {IF \A c \in key : r[c] = data[c] THEN Merge(r, data) ELSE r : r \in table}
    ELSE table \cup {data}

----------------------------------------------------------------------------
(* Raw fixtures.  A raw fixture carries its id, an opaque score payload,   *)
(* its participants, its statistics rows and its lineups; a lineup entry   *)
(* names its player by player_id and may or may not carry the nested       *)
(* player object (sync.py 833-834 reads both).                             *)

RawParticipants ==
    <<[id |-> 1, location |-> "home"], [id |-> 2, location |-> "away"]>>

RawStats == {<<>>, <<[team_id |-> 1, location |-> "home", value |-> 5]>>}

RawLineups ==
    {<<>>} \cup {<<[player_id |-> 1, team_id |-> 1, nested |-> b]>> : b \in BOOLEAN}

RawFixture(i, st, lu) ==
    [id |-> i, scores |-> i, participants |-> RawParticipants,
     statistics |-> st, lineups |-> lu]

\* the windows of n fixtures with the ids 1..n
Windows(n) ==
    {w \in [1..n -> {RawFixture(i, st, lu) : i \in 1..n, st \in RawStats, lu \in RawLineups}] :
        \A i \in 1..n : w[i].id = i}

\* sync.py 147-184, _fixture_mapper, on the fields kept here
FixtureMapper(raw) == [id |-> raw.id, scores |-> raw.scores]

\* sync.py 129-144, _player_mapper: of the nested player, or of {} when the
\* lineup entry carries none, and then every field is None
PlayerMapper(lu) ==
    IF lu.nested THEN [id |-> lu.player_id, display_name |-> "player"]
    ELSE [id |-> 0, display_name |-> NULL]

RECURSIVE StoreParticipants(_, _, _)
\* sync.py 780-807
StoreParticipants(table, fid, ps) ==
    IF ps = <<>> THEN table
    ELSE StoreParticipants(
            UpsertByKey(table, {"fixture_id", "team_id"},
                        [fixture_id |-> fid, team_id |-> Head(ps).id,
                         location |-> Head(ps).location]),
            fid, Tail(ps))

RECURSIVE StoreTeamStats(_, _, _)
\* sync.py 809-828 over the rows grouped by team (197-204)
StoreTeamStats(table, fid, st) ==
    IF st = <<>> THEN table
    ELSE StoreTeamStats(
            UpsertByKey(table, {"fixture_id", "team_id"},
                        [fixture_id |-> fid, team_id |-> Head(st).team_id,
                         location |-> Head(st).location, stats |-> Head(st).value]),
            fid, Tail(st))

RECURSIVE StorePlayerStats(_, _, _)
\* sync.py 830-864: per lineup entry the player is upserted, then the
\* player_stats row of (fixture, player); db is <<players, player_stats>>
StorePlayerStats(db, fid, lus) ==
    IF lus = <<>> THEN db
    ELSE LET lu == Head(lus)
         IN  StorePlayerStats(
                <<Upsert(db[1], PlayerMapper(lu)),
                  UpsertByKey(db[2], {"fixture_id", "player_id"},
                              [fixture_id |-> fid, player_id |-> lu.player_id,
                               team_id |-> lu.team_id])>>,
                fid, Tail(lus))

\* sync.py 429-433: what the loop does with one fixture;
\* db is <<fixtures, participants, team_stats, player_stats, players>>
StoreFixture(db, raw, details) ==
    LET ps == IF details THEN StorePlayerStats(<<db[5], db[4]>>, raw.id, raw.lineups)
              ELSE <<db[5], db[4]>>
    IN  <<Upsert(db[1], FixtureMapper(raw)),
          StoreParticipants(db[2], raw.id, raw.participants),
          IF details THEN StoreTeamStats(db[3], raw.id, raw.statistics) ELSE db[3],
          ps[2],
          ps[1]>>

RECURSIVE StoreWindow(_, _, _, _, _)
\* sync.py 422-436: the loop over the records, left at `limit` records
StoreWindow(db, items, details, limit, count) ==
    IF items = <<>> \/ (limit # 0 /\ count >= limit) THEN db
    ELSE StoreWindow(StoreFixture(db, Head(items), details), Tail(items),
                     details, limit, count + 1)

\* sync.py 395-439, sync_fixtures_between: the walk of the window, the loop
\* and the commit of 437
SyncFixturesBetween ==
    /\ fRuns < MaxRuns
    /\ LET db == StoreWindow(ftables, fUp, fDetails, fLimit, 0)
       IN  /\ fFixtures' = db[1]
           /\ fParts' = db[2]
           /\ fTeamStats' = db[3]
           /\ fPlayerStats' = db[4]
           /\ fPlayers' = db[5]
    /\ fRuns' = fRuns + 1
    /\ UNCHANGED <<fUp, fDetails, fLimit>>
    /\ UNCHANGED exceptF

----------------------------------------------------------------------------
(* The odds store.  A raw odds row carries the provider's outcome id (0    *)
(* for none), bookmaker_id, market_id, label, name, participant, handicap, *)
(* total and value.                                                        *)

OddsFixture == 1

OddsIdentities ==
    {[id |-> i, bookmaker_id |-> 2, market_id |-> 1, label |-> "Over",
      name |-> n, participant |-> p, handicap |-> h, total |-> "2.5",
      value |-> "1.5"] :
        i \in {0, 1}, n \in {NULL, "A"}, p \in {NULL, "A", "B"}, h \in {NULL, "-1"}}

OddsValues == {"1.5", "2.0"}

\* float(row.get("value")) unless the value is None or "" (sync.py 931),
\* written in tenths
DecimalOdds(v) ==
    IF v \in {NULL, ""} THEN 0 ELSE IF v = "1.5" THEN 15 ELSE 20

\* x or y: the first that is neither None nor empty
Or(x, y) == IF x \notin {NULL, ""} THEN x ELSE y

\* utils.dict_hash is not part of the sources: a stable fingerprint of the
\* payload, equal for equal payloads only
DictHash(row) ==
    <<row.id, row.bookmaker_id, row.market_id, row.label, row.name,
      row.participant, row.handicap, row.total, row.value>>

\* sync.py 918-939: the columns written for a row
OddsData(fid, row) ==
    [provider_outcome_id |-> row.id,
     fixture_id |-> fid,
     bookmaker_id |-> row.bookmaker_id,
     market_id |-> row.market_id,
     label |-> row.label,
     name |-> row.name,
     participant |-> Or(row.participant, Or(row.name, row.total)),
     handicap |-> row.handicap,
     total |-> row.total,
     decimal_odds |-> DecimalOdds(row.value),
     raw |-> row,
     raw_hash |-> DictHash(row)]

\* sync.py 901-913: the filter of the natural-key query
OddsLookupKey(fid, row) ==
    [fixture_id |-> fid,
     bookmaker_id |-> row.bookmaker_id,
     market_id |-> row.market_id,
     label |-> row.label,
     participant |-> Or(row.name, Or(row.participant, row.total)),
     handicap |-> row.handicap,
     total |-> row.total]

\* models.py 287-296, uq_odds_outcome_key
OddsKeyColumns ==
    {"fixture_id", "bookmaker_id", "market_id", "label", "participant",
     "handicap", "total"}

OddsKey(r) == [c \in OddsKeyColumns |-> r[c]]

\* the unique constraint refuses a row whose key equals that of another row,
\* unless a column of the key is NULL: NULLs are distinct to SQL
UniqueViolated(table) ==
    \E r1, r2 \in table :
        /\ r1.id # r2.id
        /\ OddsKey(r1) = OddsKey(r2)
        /\ \A c \in {"fixture_id", "bookmaker_id", "market_id"} : r1[c] # 0
        /\ \A c \in {"label", "participant", "handicap", "total"} : r1[c] # NULL

\* sync.py 867-944 for one row; st is the session: the rows, the bookmaker
\* and market ids, the error raised if any, and the counts of the call
StoreOddsRow(st, fid, row) ==
    LET byPid == IF row.id # 0
                 THEN {r \in st.rows : r.provider_outcome_id = row.id} ELSE {}
        byKey == {r \in st.rows : OddsKey(r) = OddsLookupKey(fid, row)}
        found == IF byPid # {} THEN byPid ELSE byKey
        data  == OddsData(fid, row)
        bms   == IF row.bookmaker_id # 0 THEN st.bms \cup {row.bookmaker_id} ELSE st.bms
        mks   == IF row.market_id # 0 THEN st.mks \cup {row.market_id} ELSE st.mks
    IN  IF st.err # "none" THEN st
        ELSE IF Cardinality(found) > 1
        THEN [st EXCEPT !.err = "MultipleResultsFound"]
        ELSE IF byPid = {} /\ found # {}
                /\ (CHOOSE r \in found : TRUE).raw_hash = DictHash(row)
        THEN [st EXCEPT !.bms = bms, !.mks = mks]
        ELSE IF found # {}
        THEN LET obj  == CHOOSE r \in found : TRUE
                 new  == Merge(obj, data)
                 rows == (st.rows \ {obj}) \cup {new}
             IN  IF UniqueViolated(rows)
                 THEN [st EXCEPT !.err = "IntegrityError"]
                 ELSE [st EXCEPT !.rows = rows, !.bms = bms, !.mks = mks,
                                 !.assigned = @ + 1,
                                 !.changed = IF new # obj THEN @ + 1 ELSE @]
        ELSE LET new  == [id |-> NextId(st.rows)] @@ data
                 rows == st.rows \cup {new}
             IN  IF UniqueViolated(rows)
                 THEN [st EXCEPT !.err = "IntegrityError"]
                 ELSE [st EXCEPT !.rows = rows, !.bms = bms, !.mks = mks,
                                 !.inserted = @ + 1]

RECURSIVE StoreOddsRows(_, _, _)
\* sync.py 866-867: the loop over the rows
StoreOddsRows(st, fid, rows) ==
    IF rows = <<>> THEN st
    ELSE StoreOddsRows(StoreOddsRow(st, fid, Head(rows)), fid, Tail(rows))

\* sync.py 576-609, sync_odds for the one fixture: the rows are stored and
\* the session is committed; an error leaves nothing committed
SyncOdds ==
    LET st == StoreOddsRows([rows |-> oRows, bms |-> oBookmakers, mks |-> oMarkets,
                             err |-> "none", assigned |-> 0, changed |-> 0,
                             inserted |-> 0],
                            OddsFixture, oFeed)
    IN  /\ Cardinality(st.rows) <= MaxOddsRows
        /\ oErr' = st.err
        /\ oRows' = IF st.err = "none" THEN st.rows ELSE oRows
        /\ oBookmakers' = IF st.err = "none" THEN st.bms ELSE oBookmakers
        /\ oMarkets' = IF st.err = "none" THEN st.mks ELSE oMarkets
        /\ oAssigned' = IF st.err = "none" THEN st.assigned ELSE 0
        /\ oChanged' = IF st.err = "none" THEN st.changed ELSE 0
        /\ oInserted' = IF st.err = "none" THEN st.inserted ELSE 0
        /\ oSameHash' = \A i \in 1..Len(oFeed) :
                            \E r \in oRows : r.raw_hash = DictHash(oFeed[i])
        /\ oPriceOnly' = /\ Len(oFeed) = 1
                         /\ \E r \in oRows :
                               /\ r.raw # oFeed[1]
                               /\ [r.raw EXCEPT !.value = oFeed[1].value] = oFeed[1]
        /\ UNCHANGED oFeed
        /\ UNCHANGED exceptO

\* the provider reprices one outcome of the feed
Reprice ==
    /\ \E i \in 1..Len(oFeed), v \in OddsValues :
          /\ v # oFeed[i].value
          /\ oFeed' = [oFeed EXCEPT ![i].value = v]
    /\ UNCHANGED <<oRows, oBookmakers, oMarkets, oErr, oSameHash, oPriceOnly,
                   oAssigned, oChanged, oInserted>>
    /\ UNCHANGED exceptO

----------------------------------------------------------------------------
(* The rate limiter of api.py.  Time is counted in ticks.  wait() reads    *)
(* the clock, reads _last_ts, sleeps for what is missing of min_interval   *)
(* and stores the clock in _last_ts; _request then sends the request.  A   *)
(* request is released when wait() stores the timestamp and returns.       *)

Paths == {"teams", "odds"}

NoRelease == [t |-> 0, path |-> "none", slept |-> FALSE]

\* the clock when the client is built: time.time() is far above min_interval
StartClock == MaxInterval + 1

\* api.py 25-26: sleep_for = self.min_interval - (now - self._last_ts)
SleepFor(min_interval, now, last_ts) == min_interval - (now - last_ts)

\* the value stored in _last_ts after the sleep
StampAtEntry(now, clock) == now

\* api.py 29: self._last_ts = time.time()
Stamp(now, clock) == clock

\* api.py 58-60 and 24: _request(path) calls wait(), which reads the clock
LimCall(w) ==
    /\ rPc[w] = "idle"
    /\ \E p \in Paths : rPath' = [rPath EXCEPT ![w] = p]
    /\ rNow' = [rNow EXCEPT ![w] = rClock]
    /\ rWake' = [rWake EXCEPT ![w] = 0]
    /\ rPc' = [rPc EXCEPT ![w] = "read"]
    /\ UNCHANGED <<rThreads, rMinInterval, rClock, rLastTs, rPrev, rCur>>
    /\ UNCHANGED exceptR

\* api.py 25-28: delta and sleep_for from _last_ts; time.sleep if positive
LimRead(w) ==
    /\ rPc[w] = "read"
    /\ LET sleep_for == SleepFor(rMinInterval, rNow[w], rLastTs)
       IN  IF sleep_for > 0
           THEN /\ rWake' = [rWake EXCEPT ![w] = rClock + sleep_for]
                /\ rPc' = [rPc EXCEPT ![w] = "sleep"]
           ELSE /\ rPc' = [rPc EXCEPT ![w] = "stamp"]
                /\ UNCHANGED rWake
    /\ UNCHANGED <<rThreads, rMinInterval, rClock, rLastTs, rNow, rPath, rPrev, rCur>>
    /\ UNCHANGED exceptR

\* time.sleep returns, not before the time asked for
LimWake(w) ==
    /\ rPc[w] = "sleep"
    /\ rClock >= rWake[w]
    /\ rPc' = [rPc EXCEPT ![w] = "stamp"]
    /\ UNCHANGED <<rThreads, rMinInterval, rClock, rLastTs, rNow, rWake, rPath,
                   rPrev, rCur>>
    /\ UNCHANGED exceptR

\* api.py 29: the timestamp is stored and wait() returns
LimStamp(w) ==
    /\ rPc[w] = "stamp"
    /\ rLastTs' = Stamp(rNow[w], rClock)
    /\ rPrev' = rCur
    /\ rCur' = [t |-> rClock, path |-> rPath[w], slept |-> rWake[w] # 0]
    /\ rPc' = [rPc EXCEPT ![w] = "send"]
    /\ UNCHANGED <<rThreads, rMinInterval, rClock, rNow, rWake, rPath>>
    /\ UNCHANGED exceptR

\* api.py 61-72: the request is sent and answered; the locals are gone
LimSend(w) ==
    /\ rPc[w] = "send"
    /\ rPc' = [rPc EXCEPT ![w] = "idle"]
    /\ rNow' = [rNow EXCEPT ![w] = 0]
    /\ rWake' = [rWake EXCEPT ![w] = 0]
    /\ rPath' = [rPath EXCEPT ![w] = "teams"]
    /\ UNCHANGED <<rThreads, rMinInterval, rClock, rLastTs, rPrev, rCur>>
    /\ UNCHANGED exceptR

\* time passes
Tick ==
    /\ rClock < StartClock + MaxTicks
    /\ rClock' = rClock + 1
    /\ UNCHANGED <<rThreads, rMinInterval, rLastTs, rPc, rNow, rWake, rPath,
                   rPrev, rCur>>
    /\ UNCHANGED exceptR

----------------------------------------------------------------------------
(* One request.  An attempt ends in a network exception (status 0) or in a *)
(* response with a status and a body that is valid JSON or not.            *)

NoResponse == [status |-> 0, json |-> FALSE]

Responses ==
    {NoResponse}
        \cup {[status |-> st, json |-> j] : st \in {200, 304}, j \in BOOLEAN}
        \cup {[status |-> st, json |-> FALSE] : st \in {404, 429, 500}}

NoResult == [kind |-> "none", status |-> 0, body |-> FALSE]

\* the call returns the decoded payload
Returned == [kind |-> "ok", status |-> 0, body |-> TRUE]

\* the call raises; status and body are those the message carries, if any
Raised(status, body) == [kind |-> "error", status |-> status, body |-> body]

\* sportmonks_client.py 51: status in (429,) or 500 <= status < 600
SmRetryable(status) == status = 429 \/ (500 <= status /\ status < 600)

\* requests.Response.ok as api.py 65 reads it: no 4xx or 5xx status
ResponseOk(status) == status < 400

Min(a, b) == IF a < b THEN a ELSE b

\* sportmonks_client.py 46 (after an exception) and 55 (after 429 / 5xx)
NextBackoff(backoff, exception) ==
    IF exception THEN backoff * 2 ELSE Min(backoff * 2, 16)

\* sportmonks_client.py 35-61, the body of the loop after the attempt:
\* what happens to the call, given the attempt's outcome
SmHandle(resp, attempt, max_retries, backoff) ==
    IF resp.status = 0
    THEN IF attempt >= max_retries
         THEN [pc |-> "done", result |-> Raised(0, FALSE), sleep |-> 0, backoff |-> backoff]
         ELSE [pc |-> "try", result |-> NoResult, sleep |-> backoff,
               backoff |-> NextBackoff(backoff, TRUE)]
    ELSE IF resp.status = 200
    THEN [pc |-> "done", result |-> IF resp.json THEN Returned ELSE Raised(0, FALSE),
          sleep |-> 0, backoff |-> backoff]
    ELSE IF SmRetryable(resp.status)
    THEN IF attempt >= max_retries
         THEN [pc |-> "done", result |-> Raised(resp.status, TRUE), sleep |-> 0,
               backoff |-> backoff]
         ELSE [pc |-> "try", result |-> NoResult, sleep |-> backoff,
               backoff |-> NextBackoff(backoff, FALSE)]
    ELSE [pc |-> "done", result |-> Raised(resp.status, TRUE), sleep |-> 0,
          backoff |-> backoff]

\* api.py 64-72: the exception of session.get passes through; a response
\* that is not ok raises with status and text; an ok one is decoded
ApiHandle(resp, attempt, max_retries, backoff) ==
    IF resp.status = 0
    THEN [pc |-> "done", result |-> Raised(0, FALSE), sleep |-> 0, backoff |-> backoff]
    ELSE IF ~ResponseOk(resp.status)
    THEN [pc |-> "done", result |-> Raised(resp.status, TRUE), sleep |-> 0,
          backoff |-> backoff]
    ELSE [pc |-> "done", result |-> IF resp.json THEN Returned ELSE Raised(0, FALSE),
          sleep |-> 0, backoff |-> backoff]

\* sportmonks_client.py 31-36 / api.py 58-63: the call begins
ReqStart ==
    /\ qPc = "idle"
    /\ qAttempt' = 0
    /\ qBackoff' = 1
    /\ qPc' = "try"
    /\ UNCHANGED <<qImpl, qMaxRetries, qResp, qSleeps, qResult>>
    /\ UNCHANGED exceptQ

\* sportmonks_client.py 38-40 / api.py 64: an attempt and its outcome
ReqTry ==
    /\ qPc = "try"
    /\ qAttempt' = qAttempt + 1
    /\ qResp' \in Responses
    /\ qPc' = "resp"
    /\ UNCHANGED <<qImpl, qMaxRetries, qBackoff, qSleeps, qResult>>
    /\ UNCHANGED exceptQ

\* the outcome is handled: return, raise, or time.sleep(backoff) and again
ReqHandle ==
    /\ qPc = "resp"
    /\ LET h == IF qImpl = "sm"
                THEN SmHandle(qResp, qAttempt, qMaxRetries, qBackoff)
                ELSE ApiHandle(qResp, qAttempt, qMaxRetries, qBackoff)
       IN  /\ qPc' = h.pc
           /\ qResult' = h.result
           /\ qBackoff' = h.backoff
           /\ qSleeps' = IF h.sleep # 0 THEN Append(qSleeps, h.sleep) ELSE qSleeps
    /\ UNCHANGED <<qImpl, qMaxRetries, qAttempt, qResp>>
    /\ UNCHANGED exceptQ

----------------------------------------------------------------------------
(* _upsert on a table with the columns id, name, country and updated_at.   *)
(* Every model of models.py declares updated_at with                       *)
(* default=datetime.utcnow, onupdate=datetime.utcnow: the ORM sets it on   *)
(* INSERT and on every UPDATE it emits, and it emits an UPDATE for a row   *)
(* only when a value of the row has changed.                               *)

UColumns == {"id", "name", "country", "updated_at"}

\* the field maps a caller may pass: any of id, name, country, present or
\* not; a present id may be None, a present text may be None
NoFields == [c \in {} |-> NULL]

FieldMaps ==
    {i @@ n @@ c :
        i \in {NoFields} \cup {[id |-> v] : v \in {0, 1, 2}},
        n \in {NoFields} \cup {[name |-> v] : v \in {NULL, "a", "b"}},
        c \in {NoFields} \cup {[country |-> v] : v \in {NULL, "a"}}}

\* the row as the flush writes it: columns not given are NULL, updated_at
\* is the time of the statement
Persist(r, now) ==
    [c \in UColumns |-> IF c = "updated_at" THEN now
                        ELSE IF c \in DOMAIN r THEN r[c] ELSE NULL]

\* the commit after _upsert: rows that are new or changed are written
Flush(before, after, now) ==
    {IF r \in before THEN r ELSE Persist(r, now) : r \in after}

\* sync.py 39-46 followed by the commit of the caller
UpsertRow ==
    /\ uClock < MaxUpserts
    /\ \E data \in FieldMaps :
          /\ uTable' = Flush(uTable, Upsert(uTable, data), uClock + 1)
          /\ uData' = data
          /\ uFound' = (IdOf(data) # 0 /\ \E r \in uTable : r.id = data.id)
    /\ uClock' = uClock + 1
    /\ UNCHANGED exceptU

----------------------------------------------------------------------------
(* Sync operations run as concurrent workers, each with its own session.   *)
(* Every write of an operation is a read (session.get or a query) followed *)
(* by an INSERT when nothing was found, an UPDATE otherwise; nothing       *)
(* orders the read and the write of one worker against the other worker.   *)

SyncOps ==
    {"sync_teams", "sync_players", "sync_fixture_details", "sync_bookmakers",
     "sync_odds"}

\* the rows one record of the operation makes it write, in order; item is
\* <<id, ref>>: the record's id and the id of the player of its lineup
\* (fixtures) or of its bookmaker (odds)
Writes(op, item) ==
    IF op = "sync_teams" THEN << <<"teams", item[1]>> >>
    ELSE IF op = "sync_players" THEN << <<"players", item[1]>> >>
    ELSE IF op = "sync_bookmakers" THEN << <<"bookmakers", item[1]>> >>
    ELSE IF op = "sync_fixture_details"
    THEN << <<"fixtures", item[1]>>, <<"fixture_participants", item[1]>>,
            <<"team_stats", item[1]>>, <<"players", item[2]>>,
            <<"player_stats", item[1]>> >>
    ELSE << <<"bookmakers", item[2]>>, <<"markets", item[2]>>,
            <<"odds_outcomes", item[1]>> >>

KTarget(w) == Writes(kOp[w], kItem[w])[kIdx[w]]

\* the operation takes a record from its walk
WorkStart(w) ==
    /\ kPhase[w] = "idle"
    /\ \E id \in 1..MaxKeys, ref \in 1..MaxKeys :
          kItem' = [kItem EXCEPT ![w] = <<id, ref>>]
    /\ kIdx' = [kIdx EXCEPT ![w] = 1]
    /\ kPhase' = [kPhase EXCEPT ![w] = "read"]
    /\ UNCHANGED <<kOp, kFound, kRows, kErr>>
    /\ UNCHANGED exceptK

\* sync.py 40 (session.get) and the queries of the _store_ methods
WorkRead(w) ==
    /\ kPhase[w] = "read"
    /\ kFound' = [kFound EXCEPT ![w] = KTarget(w) \in kRows]
    /\ kPhase' = [kPhase EXCEPT ![w] = "write"]
    /\ UNCHANGED <<kOp, kItem, kIdx, kRows, kErr>>
    /\ UNCHANGED exceptK

\* sync.py 41-46: setattr on the row found, or session.add, then written;
\* an INSERT of a primary key another session has inserted raises
WorkWrite(w) ==
    /\ kPhase[w] = "write"
    /\ IF ~kFound[w] /\ KTarget(w) \in kRows
       THEN /\ kErr' = [kErr EXCEPT ![w] = "IntegrityError"]
            /\ kPhase' = [kPhase EXCEPT ![w] = "done"]
            /\ UNCHANGED <<kRows, kIdx>>
       ELSE /\ kRows' = kRows \cup {KTarget(w)}
            /\ IF kIdx[w] < Len(Writes(kOp[w], kItem[w]))
               THEN /\ kIdx' = [kIdx EXCEPT ![w] = @ + 1]
                    /\ kPhase' = [kPhase EXCEPT ![w] = "read"]
               ELSE /\ kPhase' = [kPhase EXCEPT ![w] = "done"]
                    /\ UNCHANGED kIdx
            /\ UNCHANGED kErr
    /\ UNCHANGED <<kOp, kItem, kFound>>
    /\ UNCHANGED exceptK

----------------------------------------------------------------------------
(* Fixture scores: sync.py 147-162, _fixture_mapper, on the scores of the  *)
(* raw fixture, which come as a list of score entries or as a dict.        *)

\* home_score / away_score None, and a key the payload does not carry
NoScore == -1

Goals == 0..MaxGoals

\* an entry of the scores list: {"description": ..., "score": {"participant":
\* ..., "goals": ...}}
ScoreEntries ==
    [description : {"CURRENT", "1ST_HALF"}, participant : {"home", "away"},
     goals : Goals \cup {NoScore}]

ScoreLists == UNION {[1..n -> ScoreEntries] : n \in 1..MaxEntries}

NoDict ==
    [localteam_score |-> NoScore, visitorteam_score |-> NoScore,
     home |-> NoScore, away |-> NoScore]

ScoreDicts ==
    [localteam_score : Goals \cup {NoScore}, visitorteam_score : Goals \cup {NoScore},
     home : Goals \cup {NoScore}, away : Goals \cup {NoScore}]

\* raw.get("scores") or raw.get("score") or {}: a non-empty list, or a dict
\* (absent scores and the empty list are the dict without keys)
RawScores ==
    {[shape |-> "list", list |-> l, dict |-> NoDict] : l \in ScoreLists}
        \cup {[shape |-> "dict", list |-> <<>>, dict |-> d] : d \in ScoreDicts}

NoRaw == [shape |-> "dict", list |-> <<>>, dict |-> NoDict]

NoMapped == [id |-> 0, home_score |-> NoScore, away_score |-> NoScore]

RECURSIVE FirstSeen(_, _, _)
\* sync.py 152-159: the loop; an entry of the participant sets the score
\* while the score is None
FirstSeen(list, participant, score) ==
    IF list = <<>> THEN score
    ELSE FirstSeen(Tail(list), participant,
                   IF Head(list).participant = participant /\ score = NoScore
                   THEN Head(list).goals ELSE score)

\* x or y of two scores: x unless it is None or 0
ScoreOr(x, y) == IF x \notin {NoScore, 0} THEN x ELSE y

\* sync.py 147-184 on id, home_score and away_score
ScoreMapper(fid, scores_raw) ==
    IF scores_raw.shape = "list"
    THEN [id |-> fid,
          home_score |-> FirstSeen(scores_raw.list, "home", NoScore),
          away_score |-> FirstSeen(scores_raw.list, "away", NoScore)]
    ELSE [id |-> fid,
          home_score |-> ScoreOr(scores_raw.dict.localteam_score, scores_raw.dict.home),
          away_score |-> ScoreOr(scores_raw.dict.visitorteam_score, scores_raw.dict.away)]

\* _fixture_mapper applied to the raw fixture in hand
MapFixture ==
    /\ gMapped = NoMapped
    /\ gMapped' = ScoreMapper(1, gRaw)
    /\ UNCHANGED <<gRaw, gTable, gPrev>>
    /\ UNCHANGED exceptG

\* sync.py 388 (and 429, 525, 548): _upsert(session, Fixture,
\* _fixture_mapper(item)) of one more payload of fixture 1, committed
SyncFixture ==
    /\ \E scores_raw \in RawScores :
          gTable' = Upsert(gTable, ScoreMapper(1, scores_raw))
    /\ gPrev' = gTable
    /\ UNCHANGED <<gRaw, gMapped>>
    /\ UNCHANGED exceptG

----------------------------------------------------------------------------
(* sync.py 441-485, sync_history_window: the range of days is walked in    *)
(* chunks, one sync_fixtures_between call per chunk.  Days are integers.   *)

\* sync.py 466
max_span == 95

\* limit = None
NoLimit == -1

\* datetime.utcnow().date(), as a day number
Today == 0

Max(a, b) == IF a > b THEN a ELSE b

\* the chunk is one day longer
ChunkEndLong(cursor, end_dt) == Min(cursor + max_span, end_dt)

\* sync.py 470
ChunkEnd(cursor, end_dt) == Min(cursor + max_span - 1, end_dt)

\* the limit, whatever was stored
RemainingWhole(limit, total) == limit

\* sync.py 471
RemainingLimit(limit, total) ==
    IF limit = NoLimit THEN NoLimit ELSE Max(limit - total, 0)

\* the counts a pass can return: it stops at its limit (sync.py 435)
PassCounts(chunk_limit) ==
    IF chunk_limit = NoLimit THEN 0..MaxCount ELSE 0..Min(MaxCount, chunk_limit)

\* sync.py 469-474: the loop goes on
HistGoesOn ==
    hPc = "loop" /\ hCursor <= hEnd /\ RemainingLimit(hLimit, hTotal) # 0

\* sync.py 469-483: one turn of the loop, the pass returns
HistChunk ==
    /\ HistGoesOn
    /\ \E count \in PassCounts(RemainingLimit(hLimit, hTotal)) :
          hTotal' = hTotal + count
    /\ hChunks' = Append(hChunks, [start |-> hCursor,
                                   end |-> ChunkEnd(hCursor, hEnd), ok |-> TRUE])
    /\ hStore' = hStore \cup {Len(hChunks) + 1}
    /\ hCursor' = ChunkEnd(hCursor, hEnd) + 1
    /\ UNCHANGED <<hStart, hEnd, hLimit, hPc>>
    /\ UNCHANGED exceptH

\* sync.py 475-481: the pass raises (a request of its walk fails); nothing
\* catches it, sync_history_window ends there
HistChunkFail ==
    /\ HistGoesOn
    /\ hChunks' = Append(hChunks, [start |-> hCursor,
                                   end |-> ChunkEnd(hCursor, hEnd), ok |-> FALSE])
    /\ hPc' = "raised"
    /\ UNCHANGED <<hStart, hEnd, hLimit, hCursor, hTotal, hStore>>
    /\ UNCHANGED exceptH

\* sync.py 469 / 472-473, 484-485: the loop is left, total is returned
HistReturn ==
    /\ hPc = "loop"
    /\ ~HistGoesOn
    /\ hPc' = "returned"
    /\ UNCHANGED <<hStart, hEnd, hLimit, hCursor, hTotal, hChunks, hStore>>
    /\ UNCHANGED exceptH

----------------------------------------------------------------------------
(* sync.py 422-439, the loop of sync_fixtures_between over the records     *)
(* fetch_collection yields page by page, and the commit that follows it.   *)

\* pages of the window
PassPages(n) == (n + PerPage - 1) \div PerPage

\* sync.py 435: limit and count >= limit
PassLimitReached == pLimit # 0 /\ Cardinality(pSession) >= pLimit

\* every record of the pages fetched has gone through the loop
PassPageDone == pNext - 1 = Min(pFetched * PerPage, pN)

\* api.py 104-110: the generator requests the next page
PassFetch ==
    /\ pPc = "walk" /\ ~PassLimitReached
    /\ PassPageDone /\ pFetched < PassPages(pN)
    /\ pFetched' = pFetched + 1
    /\ UNCHANGED <<pN, pBad, pLimit, pNext, pSession, pStore, pPc, pErr>>
    /\ UNCHANGED exceptP

\* api.py 58-72: the request of the next page raises; the loop is left by
\* the exception and line 437 is not reached
PassFetchFail ==
    /\ pPc = "walk" /\ ~PassLimitReached
    /\ PassPageDone /\ pFetched < PassPages(pN)
    /\ pPc' = "raised"
    /\ pErr' = "request"
    /\ UNCHANGED <<pN, pBad, pLimit, pFetched, pNext, pSession, pStore>>
    /\ UNCHANGED exceptP

\* sync.py 429-434: the loop body; _fixture_mapper raises on a record it
\* cannot map, and nothing catches it
PassItem ==
    /\ pPc = "walk" /\ ~PassLimitReached
    /\ ~PassPageDone
    /\ IF pNext \in pBad
       THEN /\ pPc' = "raised"
            /\ pErr' = "mapping"
            /\ UNCHANGED <<pNext, pSession>>
       ELSE /\ pSession' = pSession \cup {pNext}
            /\ pNext' = pNext + 1
            /\ UNCHANGED <<pPc, pErr>>
    /\ UNCHANGED <<pN, pBad, pLimit, pFetched, pStore>>
    /\ UNCHANGED exceptP

\* sync.py 435-439: the loop ends or breaks at the limit; session.commit()
PassCommit ==
    /\ pPc = "walk"
    /\ PassLimitReached \/ (PassPageDone /\ pFetched = PassPages(pN))
    /\ pStore' = pStore \cup pSession
    /\ pPc' = "returned"
    /\ UNCHANGED <<pN, pBad, pLimit, pFetched, pNext, pSession, pErr>>
    /\ UNCHANGED exceptP

----------------------------------------------------------------------------
(* scripts/export_to_supabase.py: the seasons kept per league and the      *)
(* deletes of the fixtures outside them.  Dates are integers, 0 for null.  *)

Leagues == 1..MaxLeagues

\* a row of the seasons table, without its id
SeasonRows ==
    {r \in [league_id : Leagues, start_date : 0..MaxDate, end_date : 0..MaxDate,
            is_current : BOOLEAN] :
        r.start_date = 0 \/ r.end_date = 0 \/ r.start_date <= r.end_date}

\* export_to_supabase.py 50 / 59: the sort key (end_date or "", start_date
\* or ""), compared
KeyGE(a, b) ==
    \/ a.end_date > b.end_date
    \/ a.end_date = b.end_date /\ a.start_date >= b.start_date

RemoveAt(seq, i) == SubSeq(seq, 1, i - 1) \o SubSeq(seq, i + 1, Len(seq))

\* the first item of the greatest key
FirstMax(items) ==
    CHOOSE i \in DOMAIN items :
        /\ \A j \in DOMAIN items : KeyGE(items[i], items[j])
        /\ \A j \in 1..(i - 1) : ~KeyGE(items[j], items[i])

RECURSIVE SortedDesc(_)
\* sorted(items, key=..., reverse=True): stable, greatest key first
SortedDesc(items) ==
    IF items = <<>> THEN <<>>
    ELSE <<items[FirstMax(items)]>> \o SortedDesc(RemoveAt(items, FirstMax(items)))

\* export_to_supabase.py 33-42: the rows of a league, in row order
SeasonsOf(rows, league_id) ==
    SelectSeq([i \in DOMAIN rows |-> [id |-> i] @@ rows[i]],
              LAMBDA season : season.league_id = league_id)

RECURSIVE KeepLoop(_, _)
\* export_to_supabase.py 64-68
KeepLoop(items_sorted, keep) ==
    IF items_sorted = <<>> THEN keep
    ELSE LET season == Head(items_sorted)
             grown == IF \A k \in DOMAIN keep : keep[k] # season.id
                      THEN Append(keep, season.id) ELSE keep
         IN  IF Len(grown) >= 2 THEN grown
             ELSE KeepLoop(Tail(items_sorted), grown)

\* export_to_supabase.py 47-68: the seasons kept of one league
KeepOf(items) ==
    LET current == SelectSeq(items, LAMBDA season : season.is_current)
    IN  KeepLoop(SortedDesc(items),
                 IF current # <<>> THEN <<SortedDesc(current)[1].id>> ELSE <<>>)

RECURSIVE LeagueOrder(_, _)
\* the keys of seasons_by_league, in the order of their first row
LeagueOrder(rows, seen) ==
    IF rows = <<>> THEN <<>>
    ELSE IF Head(rows).league_id \in seen THEN LeagueOrder(Tail(rows), seen)
    ELSE <<Head(rows).league_id>>
            \o LeagueOrder(Tail(rows), seen \cup {Head(rows).league_id})

\* the fixtures the stores hold: one per season row, one per league of a
\* season that is no longer in the table, and one without season
FixturesOf(rows) ==
    {[id |-> i, league_id |-> rows[i].league_id, season_id |-> i] : i \in DOMAIN rows}
        \cup {[id |-> Len(rows) + l, league_id |-> l, season_id |-> Len(rows) + l] :
                  l \in Leagues}
        \cup {[id |-> 0, league_id |-> 1, season_id |-> 0]}

\* every fixture outside the seasons kept, of any league
OutOfScopeAnyLeague(fixture, league_id, keep_ids) ==
    /\ fixture.season_id # 0
    /\ \A k \in DOMAIN keep_ids : keep_ids[k] # fixture.season_id

\* export_to_supabase.py 206-209: league_id = eq.<league>, season_id =
\* not.in.(<kept>); a null season_id matches no not.in
OutOfScope(fixture, league_id, keep_ids) ==
    /\ fixture.league_id = league_id
    /\ fixture.season_id # 0
    /\ \A k \in DOMAIN keep_ids : keep_ids[k] # fixture.season_id

\* export_to_supabase.py 24-75, get_keep_seasons
GetKeepSeasons ==
    /\ ePc = "start"
    /\ eKeep' = [l \in Leagues |-> KeepOf(SeasonsOf(eRows, l))]
    /\ eTodo' = LeagueOrder(eRows, {})
    /\ ePc' = "delete"
    /\ UNCHANGED <<eRows, eDryRun, eExport, ePrimary, eDeleted>>
    /\ UNCHANGED exceptE

\* export_to_supabase.py 201-218: one turn of the loop of
\* delete_out_of_scope_fixtures, the DELETE answered below 300
DeleteLeague ==
    /\ ePc = "delete" /\ eTodo # <<>>
    /\ LET league_id == Head(eTodo)
           gone == IF eDryRun \/ eKeep[league_id] = <<>> THEN {}
                   ELSE {f \in eExport : OutOfScope(f, league_id, eKeep[league_id])}
       IN  /\ eExport' = eExport \ gone
           /\ eDeleted' = eDeleted \cup gone
    /\ eTodo' = Tail(eTodo)
    /\ UNCHANGED <<eRows, eDryRun, eKeep, ePrimary, ePc>>
    /\ UNCHANGED exceptE

\* export_to_supabase.py 219-222: the DELETE is answered 300 or more
DeleteFail ==
    /\ ePc = "delete" /\ eTodo # <<>>
    /\ ~eDryRun /\ eKeep[Head(eTodo)] # <<>>
    /\ ePc' = "raised"
    /\ UNCHANGED <<eRows, eDryRun, eKeep, eTodo, eExport, ePrimary, eDeleted>>
    /\ UNCHANGED exceptE

\* export_to_supabase.py 228: return deleted
DeleteReturn ==
    /\ ePc = "delete" /\ eTodo = <<>>
    /\ ePc' = "done"
    /\ UNCHANGED <<eRows, eDryRun, eKeep, eTodo, eExport, ePrimary, eDeleted>>
    /\ UNCHANGED exceptE

----------------------------------------------------------------------------
(* aggregate.py 26-177 and 181-305: compute_team_form and                  *)
(* compute_player_form of one entity, on the fixtures it took part in      *)
(* (for a player: the fixtures it has a stat line in).                     *)

\* a fixture: starting_at (0 for null) and its two scores
FormFixtures ==
    [starting_at : 0..MaxDate, home_score : Goals \cup {NoScore},
     away_score : Goals \cup {NoScore}]

\* no Form row of (entity, sample_size); the return value None
NoForm == [games_played |-> 0, raw_fixtures |-> <<>>]

\* a Form row left by an earlier run
OldForm == [games_played |-> 1, raw_fixtures |-> <<0>>]

\* aggregate.py 34: Fixture.home_score != None, Fixture.away_score != None
HasScores(fx) == fx.home_score # NoScore /\ fx.away_score # NoScore

\* aggregate.py 196: Fixture.starting_at != None
PlayerFilter(fx) == fx.starting_at # 0

\* aggregate.py 35 / 197: starting_at descending, nulls last: a may stand
\* before b
MayPrecede(a, b) ==
    b.starting_at = 0 \/ (a.starting_at # 0 /\ a.starting_at >= b.starting_at)

\* ORDER BY ... LIMIT over the fixtures of the ids `found`: every result
\* the database may give, ties in any order
QueryRows(fixtures, found, limit) ==
    {q \in [1..Min(limit, Cardinality(found)) -> found] :
        /\ \A i, j \in DOMAIN q : i < j =>
              (q[i] # q[j] /\ MayPrecede(fixtures[q[i]], fixtures[q[j]]))
        /\ \A c \in found : (\A i \in DOMAIN q : q[i] # c) =>
              \A i \in DOMAIN q : MayPrecede(fixtures[q[i]], fixtures[c])}

\* aggregate.py 30-37 / 184-199: the ids the filter of the query lets pass
Found(kind, fixtures) ==
    IF kind = "team" THEN {i \in DOMAIN fixtures : HasScores(fixtures[i])}
    ELSE {i \in DOMAIN fixtures : PlayerFilter(fixtures[i])}

\* aggregate.py 95-98: the loop of compute_team_form passes over a row
\* without scores; compute_player_form takes every row
Counted(kind, fixtures, rows) ==
    IF kind = "team"
    THEN SelectSeq(rows, LAMBDA i : HasScores(fixtures[i]))
    ELSE rows

\* aggregate.py 38-40, 142-177 / 200-202, 264-305
ComputeForm ==
    /\ mPc = "call"
    /\ \E rows \in QueryRows(mFixtures, Found(mKind, mFixtures), mSample) :
          LET counted == Counted(mKind, mFixtures, rows)
              form == [games_played |-> Len(counted), raw_fixtures |-> counted]
          IN  IF rows = <<>> \/ Len(counted) = 0
              THEN mResult' = NoForm /\ mForm' = mForm
              ELSE mResult' = form /\ mForm' = form
    /\ mPc' = "done"
    /\ UNCHANGED <<mKind, mFixtures, mSample, mOld>>
    /\ UNCHANGED exceptM

----------------------------------------------------------------------------
(* ValueBets/team_value_bets.py 229-236 and                                *)
(* ValueBets/player_one_shot_value_bets.py 130-143: rate_over.  The line   *)
(* is held doubled, so that 2.5 is an integer; a quotient is the fraction  *)
(* in lowest terms.                                                        *)

\* a value None
NoValue == -1

\* the sample of the example: shots-for of 8 games
ExampleValues == <<3, 1, 4, 1, 5, 9, 2, 6>>

RECURSIVE GCD(_, _)
GCD(a, b) == IF b = 0 THEN a ELSE GCD(b, a % b)

\* a / b, b > 0
Quotient(a, b) == <<a \div GCD(a, b), b \div GCD(a, b)>>

\* v > line
ExceedsLine(v, line2) == 2 * v > line2

\* v >= line
MeetsLine(v, line2) == 2 * v >= line2

\* [v for v in values if v is not None]
Clean(values) == SelectSeq(values, LAMBDA v : v # NoValue)

RECURSIVE CountOver(_, _)
\* sum(1 for v in clean if v >= line)
CountOver(clean, line2) ==
    IF clean = <<>> THEN 0
    ELSE (IF MeetsLine(Head(clean), line2) THEN 1 ELSE 0) + CountOver(Tail(clean), line2)

RECURSIVE SumOf(_)
\* sum(clean)
SumOf(clean) == IF clean = <<>> THEN 0 ELSE Head(clean) + SumOf(Tail(clean))

RateNone == [kind |-> "None", pct |-> <<0, 1>>, total |-> 0, avg |-> <<0, 1>>]

RateError == [kind |-> "ZeroDivisionError", pct |-> <<0, 1>>, total |-> 0, avg |-> <<0, 1>>]

RateValue(pct, total, avg) == [kind |-> "value", pct |-> pct, total |-> total, avg |-> avg]

\* team_value_bets.py 229-236
TeamRateOver(values, line2, min_samples) ==
    LET clean == Clean(values)
    IN  IF Len(clean) < min_samples THEN RateNone
        ELSE IF Len(clean) = 0 THEN RateError
        ELSE RateValue(Quotient(CountOver(clean, line2), Len(clean)), Len(clean),
                       Quotient(SumOf(clean), Len(clean)))

\* player_one_shot_value_bets.py 130-143
PlayerRateOver(vals, line2, min_samples) ==
    LET clean == Clean(vals)
        required == Min(IF min_samples > 0 THEN min_samples ELSE 1, Len(clean))
    IN  IF Len(clean) < required THEN RateNone
        ELSE IF clean = <<>> THEN RateValue(<<0, 1>>, 0, <<0, 1>>)
        ELSE RateValue(Quotient(CountOver(clean, line2), Len(clean)), Len(clean),
                       Quotient(SumOf(clean), Len(clean)))

RateOver ==
    /\ vPc = "call"
    /\ vResult' = IF vImpl = "team" THEN TeamRateOver(vValues, vLine2, vMin)
                  ELSE PlayerRateOver(vValues, vLine2, vMin)
    /\ vPc' = "done"
    /\ UNCHANGED <<vImpl, vValues, vLine2, vMin>>
    /\ UNCHANGED exceptV

----------------------------------------------------------------------------
(* ValueBets/team_value_bets.py 239-250: select_best_rate, and             *)
(* ValueBets/player_one_shot_value_bets.py 146-156: best_rate.  One step   *)
(* is one iteration of the loop over the sample sizes.                     *)

\* largest sample size
MaxSize == 3

\* best = None
BestNone == [kind |-> "None", pct |-> <<0, 1>>, total |-> 0, avg |-> <<0, 1>>,
             sample_size |-> 0]

\* [fx.get(key) for fx in fixtures[:sample_size]]
WindowValues(fixtures, sample_size) ==
    SubSeq(fixtures, 1, Min(sample_size, Len(fixtures)))

\* res = rate_over(vals, line, MIN_SAMPLES)
BestRes ==
    IF bImpl = "team"
    THEN TeamRateOver(WindowValues(bFixtures, bSizes[bIdx]), bLine2, bMin)
    ELSE PlayerRateOver(WindowValues(bFixtures, bSizes[bIdx]), bLine2, bMin)

\* a > b, for fractions with positive denominators
FracGT(a, b) == a[1] * b[2] > b[1] * a[2]

\* a >= b
FracGE(a, b) == a[1] * b[2] >= b[1] * a[2]

\* best is None or res["pct"] > best["pct"]
Beats(res, best) == best.kind = "None" \/ FracGT(res.pct, best.pct)

BestLoops == bPc = "loop" /\ bIdx <= Len(bSizes)

\* if not res: continue
BestSkip ==
    /\ BestLoops
    /\ BestRes.kind = "None"
    /\ bIdx' = bIdx + 1
    /\ UNCHANGED <<bImpl, bFixtures, bSizes, bLine2, bMin, bBest, bPc>>
    /\ UNCHANGED exceptB

\* res["sample_size"] = sample_size; best = res
BestTake ==
    /\ BestLoops
    /\ BestRes.kind = "value"
    /\ Beats(BestRes, bBest)
    /\ bBest' = [kind |-> "value", pct |-> BestRes.pct, total |-> BestRes.total,
                 avg |-> BestRes.avg, sample_size |-> bSizes[bIdx]]
    /\ bIdx' = bIdx + 1
    /\ UNCHANGED <<bImpl, bFixtures, bSizes, bLine2, bMin, bPc>>
    /\ UNCHANGED exceptB

\* res does not beat best
BestKeep ==
    /\ BestLoops
    /\ BestRes.kind = "value"
    /\ ~Beats(BestRes, bBest)
    /\ bIdx' = bIdx + 1
    /\ UNCHANGED <<bImpl, bFixtures, bSizes, bLine2, bMin, bBest, bPc>>
    /\ UNCHANGED exceptB

\* rate_over divides by zero; the exception leaves the selector
BestRaise ==
    /\ BestLoops
    /\ BestRes.kind = "ZeroDivisionError"
    /\ bPc' = "raised"
    /\ UNCHANGED <<bImpl, bFixtures, bSizes, bLine2, bMin, bIdx, bBest>>
    /\ UNCHANGED exceptB

\* return best
BestReturn ==
    /\ bPc = "loop"
    /\ bIdx > Len(bSizes)
    /\ bPc' = "done"
    /\ UNCHANGED <<bImpl, bFixtures, bSizes, bLine2, bMin, bIdx, bBest>>
    /\ UNCHANGED exceptB

----------------------------------------------------------------------------
(* aggregate.py 26-177 compute_team_form, 182-317 compute_player_form,     *)
(* 320-349 bulk_compute_forms, with the tables of models.py 300-348.       *)
(* Every fixture has team 1 at home and team 2 away; player 1 plays for    *)
(* team 1 and has a stat line in a fixture or not.  A percentage or an     *)
(* average is the exact fraction; the rounding of the float columns is not *)
(* modelled.                                                               *)

\* most shots of a stat line
MaxShots == 3

\* calls in a run of the program
MaxOps == 2

FormTeams == {1, 2}

FormPlayers == {1}

\* the player has no stat line in the fixture
NoLine == [shots |-> NoValue, shots_on |-> NoValue, goals |-> NoValue]

\* a database returns the rows of an unchanged table in one order: rows the
\* ORDER BY does not tell apart stand in the order of storage
StableRows(fixtures, found, limit) ==
    CHOOSE q \in QueryRows(fixtures, found, limit) :
        /\ \A i, j \in DOMAIN q :
              (i < j /\ MayPrecede(fixtures[q[j]], fixtures[q[i]])) => q[i] < q[j]
        /\ \A c \in found : \A i \in DOMAIN q :
              ((\A j \in DOMAIN q : q[j] # c) /\ MayPrecede(fixtures[c], fixtures[q[i]]))
                  => q[i] < c

\* aggregate.py 30-37: the rows of the team, both teams play every fixture
TeamRows(fixtures, team_id, sample_size) ==
    StableRows(fixtures, Found("team", fixtures), sample_size)

\* aggregate.py 186-199: the rows of the player, one per stat line
PlayerRows(fixtures, player_id, sample_size) ==
    StableRows(fixtures,
               {i \in Found("player", fixtures) : fixtures[i].line # NoLine},
               sample_size)

\* aggregate.py 100-103: gf, ga by part.location
GoalsFor(fx, team_id) == IF team_id = 1 THEN fx.home_score ELSE fx.away_score

GoalsAgainst(fx, team_id) == IF team_id = 1 THEN fx.away_score ELSE fx.home_score

\* a draw is no outcome
OutcomeDecided(gf, ga) ==
    IF gf > ga THEN "win" ELSE IF gf < ga THEN "loss" ELSE "none"

\* aggregate.py 110-116
Outcome(gf, ga) ==
    IF gf > ga THEN "win" ELSE IF gf = ga THEN "draw" ELSE "loss"

\* aggregate.py 107-108: total_goals >= 3
Over25(gf, ga) == gf + ga >= 3

\* 1 - pct
OneMinus(pct) == <<pct[2] - pct[1], pct[2]>>

\* aggregate.py 93-173: data, from the rows of the query
TeamFormData(fixtures, team_id, sample_size, rows) ==
    LET counted == Counted("team", fixtures, rows)
        games_played == Len(counted)
        gf(k) == GoalsFor(fixtures[counted[k]], team_id)
        ga(k) == GoalsAgainst(fixtures[counted[k]], team_id)
        n(o) == Cardinality({k \in DOMAIN counted : Outcome(gf(k), ga(k)) = o})
        over25 == Cardinality({k \in DOMAIN counted : Over25(gf(k), ga(k))})
        over25_pct == Quotient(over25, games_played)
    IN  [team_id |-> team_id, sample_size |-> sample_size,
         games_played |-> games_played,
         over_2_5_pct |-> over25_pct, under_2_5_pct |-> OneMinus(over25_pct),
         win_pct |-> Quotient(n("win"), games_played),
         draw_pct |-> Quotient(n("draw"), games_played),
         loss_pct |-> Quotient(n("loss"), games_played),
         raw_fixtures |-> counted]

\* v = k
Exactly(v, k) == v = k

\* aggregate.py 249-262: shots >= 1, shots >= 2, ...
AtLeast(v, k) == v >= k

\* aggregate.py 264-305: data, from the rows of the query
PlayerFormData(fixtures, player_id, sample_size, rows) ==
    LET games_played == Len(rows)
        line(k) == fixtures[rows[k]].line
        ge(f, t) == Cardinality({k \in DOMAIN rows : AtLeast(line(k)[f], t)})
    IN  [player_id |-> player_id, sample_size |-> sample_size,
         games_played |-> games_played,
         shots_ge_1_pct |-> Quotient(ge("shots", 1), games_played),
         shots_ge_2_pct |-> Quotient(ge("shots", 2), games_played),
         shots_ge_3_pct |-> Quotient(ge("shots", 3), games_played),
         shots_on_ge_1_pct |-> Quotient(ge("shots_on", 1), games_played),
         shots_on_ge_2_pct |-> Quotient(ge("shots_on", 2), games_played),
         goals_ge_1_pct |-> Quotient(ge("goals", 1), games_played),
         goals_ge_2_pct |-> Quotient(ge("goals", 2), games_played),
         raw_fixtures |-> rows]

\* the query never finds the row
TeamFormMissed(table, team_id, sample_size) == {}

\* aggregate.py 148-152: the rows the filter of one_or_none finds
TeamFormOf(table, team_id, sample_size) ==
    {i \in DOMAIN table : table[i].data.team_id = team_id
                          /\ table[i].data.sample_size = sample_size}

\* aggregate.py 268-272
PlayerFormOf(table, player_id, sample_size) ==
    {i \in DOMAIN table : table[i].data.player_id = player_id
                          /\ table[i].data.sample_size = sample_size}

\* the fields an earlier run has set stay
KeepOld(old, data) == old

\* aggregate.py 168-170 / 312-314: setattr(obj, k, v) for every k of data
SetAll(old, data) == data

\* aggregate.py 147-177 / 267-317: obj = one_or_none(); set its fields, or
\* add a row; models.py 317-319 / 345-347: the unique constraint of the table
SaveForm(table, found, taken, data) ==
    IF Cardinality(found) > 1
    THEN [table |-> table, err |-> "MultipleResultsFound"]
    ELSE IF found # {}
    THEN LET i == CHOOSE i \in found : TRUE
         IN  [table |-> [table EXCEPT ![i].data = SetAll(@, data)], err |-> "none"]
    ELSE IF taken
    THEN [table |-> table, err |-> "IntegrityError"]
    ELSE [table |-> Append(table, [id |-> Len(table) + 1, data |-> data]),
          err |-> "none"]

\* compute_team_form on the tables st; an exception of an earlier call goes on
ComputeTeamForm(st, fixtures, team_id, sample_size) ==
    LET rows == TeamRows(fixtures, team_id, sample_size)
        data == TeamFormData(fixtures, team_id, sample_size, rows)
        taken == \E i \in DOMAIN st.team :
                    /\ st.team[i].data.team_id = team_id
                    /\ st.team[i].data.sample_size = sample_size
        saved == SaveForm(st.team, TeamFormOf(st.team, team_id, sample_size),
                          taken, data)
    IN  IF st.err # "none" THEN st
        ELSE IF rows = <<>> \/ data.games_played = 0 THEN st
        ELSE [st EXCEPT !.team = saved.table, !.err = saved.err]

\* compute_player_form on the tables st
ComputePlayerForm(st, fixtures, player_id, sample_size) ==
    LET rows == PlayerRows(fixtures, player_id, sample_size)
        data == PlayerFormData(fixtures, player_id, sample_size, rows)
        taken == \E i \in DOMAIN st.player :
                    /\ st.player[i].data.player_id = player_id
                    /\ st.player[i].data.sample_size = sample_size
        saved == SaveForm(st.player, PlayerFormOf(st.player, player_id, sample_size),
                          taken, data)
    IN  IF st.err # "none" THEN st
        ELSE IF rows = <<>> \/ data.games_played = 0 THEN st
        ELSE [st EXCEPT !.player = saved.table, !.err = saved.err]

RECURSIVE Ascending(_)
\* sorted(S)
Ascending(S) ==
    IF S = {} THEN <<>>
    ELSE LET m == CHOOSE m \in S : \A x \in S : m <= x
         IN  <<m>> \o Ascending(S \ {m})

\* aggregate.py 325: sorted({int(s) for s in sample_sizes if s})
SampleSizes(sample_sizes) == Ascending({x \in sample_sizes : x # 0})

\* aggregate.py 326: the distinct team ids of fixture_participants
TeamIds(fixtures) == IF fixtures = <<>> THEN <<>> ELSE Ascending(FormTeams)

\* aggregate.py 327: the distinct player ids of player_stat_lines
PlayerIds(fixtures) ==
    IF \E i \in DOMAIN fixtures : fixtures[i].line # NoLine
    THEN Ascending(FormPlayers) ELSE <<>>

RECURSIVE TeamPass(_, _, _, _)
\* aggregate.py 331-333
TeamPass(st, fixtures, ids, sample_size) ==
    IF ids = <<>> THEN st
    ELSE TeamPass(ComputeTeamForm(st, fixtures, Head(ids), sample_size),
                  fixtures, Tail(ids), sample_size)

RECURSIVE PlayerPass(_, _, _, _)
\* aggregate.py 334-336
PlayerPass(st, fixtures, ids, sample_size) ==
    IF ids = <<>> THEN st
    ELSE PlayerPass(ComputePlayerForm(st, fixtures, Head(ids), sample_size),
                    fixtures, Tail(ids), sample_size)

RECURSIVE BulkLoop(_, _, _)
\* aggregate.py 329-340: one pass and one commit per sample size; an
\* exception ends the run with the passes committed so far
BulkLoop(st, fixtures, sizes) ==
    IF sizes = <<>> THEN st
    ELSE LET pass == PlayerPass(TeamPass(st, fixtures, TeamIds(fixtures), Head(sizes)),
                                fixtures, PlayerIds(fixtures), Head(sizes))
         IN  IF pass.err # "none" THEN [st EXCEPT !.err = pass.err]
             ELSE BulkLoop(pass, fixtures, Tail(sizes))

NoTables == [team |-> <<>>, player |-> <<>>, err |-> "none"]

Tables == [team |-> aTeamForms, player |-> aPlayerForms, err |-> "none"]

AggregateOpen == aLast # "none" /\ aOps < MaxOps

\* compute_team_form(session, team_id, sample_size), committed by the caller
CallTeamForm ==
    /\ AggregateOpen
    /\ \E team_id \in FormTeams, sample_size \in 1..MaxSample :
          LET st == ComputeTeamForm(Tables, aFixtures, team_id, sample_size)
          IN  /\ aTeamForms' = st.team
              /\ aErr' = st.err
    /\ aLast' = "team"
    /\ aOps' = aOps + 1
    /\ UNCHANGED <<aFixtures, aSizes, aPlayerForms, aPrev>>
    /\ UNCHANGED exceptA

\* compute_player_form(session, player_id, sample_size), committed by the caller
CallPlayerForm ==
    /\ AggregateOpen
    /\ \E player_id \in FormPlayers, sample_size \in 1..MaxSample :
          LET st == ComputePlayerForm(Tables, aFixtures, player_id, sample_size)
          IN  /\ aPlayerForms' = st.player
              /\ aErr' = st.err
    /\ aLast' = "player"
    /\ aOps' = aOps + 1
    /\ UNCHANGED <<aFixtures, aSizes, aTeamForms, aPrev>>
    /\ UNCHANGED exceptA

\* bulk_compute_forms(session, sample_sizes)
BulkComputeForms ==
    /\ AggregateOpen
    /\ LET st == BulkLoop(Tables, aFixtures, SampleSizes(aSizes))
       IN  /\ aTeamForms' = st.team
           /\ aPlayerForms' = st.player
           /\ aErr' = st.err
    /\ aPrev' = Append(aPrev, [team |-> aTeamForms, player |-> aPlayerForms])
    /\ aLast' = "bulk"
    /\ aOps' = aOps + 1
    /\ UNCHANGED <<aFixtures, aSizes>>
    /\ UNCHANGED exceptA

----------------------------------------------------------------------------
(* aggregate.py 365-416: normalize_odds.  The outcomes are those of one    *)
(* fixture and one bookmaker; name is NULL in every row.                   *)

\* most rows of odds_outcomes
MaxOutcomes == 2

\* models.py 260-298: the columns of odds_outcomes that normalize_odds reads
OutcomeRows ==
    [market_id : 1..2, participant : {NULL, "Home"}, label : {"1", "2"},
     handicap : {NULL}, total : {NULL, "2.5"},
     decimal_odds : 1..2, updated_at : 1..MaxDate]

\* models.py 287-296: uq_odds_outcome_key
OutcomeKey(row) ==
    <<row.market_id, row.label, row.participant, row.handicap, row.total>>

\* aggregate.py 374: sel = row.participant or row.label or row.name
Selection(row) == Or(row.participant, Or(row.label, NULL))

\* aggregate.py 375: line = row.handicap or row.total or row.label
Line(row) == Or(row.handicap, Or(row.total, row.label))

\* aggregate.py 386-392: the key of the row of odds_latest
LatestKey(row) == <<row.market_id, Selection(row), Line(row)>>

\* aggregate.py 366-370: ORDER BY fixture_id, market_id, updated_at DESC;
\* a may stand before b
OddsMayPrecede(a, b) ==
    \/ a.market_id < b.market_id
    \/ a.market_id = b.market_id /\ a.updated_at >= b.updated_at

\* every order the query may return the outcomes in
OddsOrders(outcomes) ==
    {q \in [DOMAIN outcomes -> DOMAIN outcomes] :
        /\ \A i, j \in DOMAIN q : i # j => q[i] # q[j]
        /\ \A i, j \in DOMAIN q :
              i < j => OddsMayPrecede(outcomes[q[i]], outcomes[q[j]])}

\* aggregate.py 383-410: the row of the key is looked up and set, or added
PutLatest(latest, row) ==
    LET found == {i \in DOMAIN latest : latest[i].key = LatestKey(row)}
        data == [key |-> LatestKey(row), decimal_odds |-> row.decimal_odds,
                 updated_at_source |-> row.updated_at]
    IN  IF found # {}
        THEN [i \in DOMAIN latest |-> IF i \in found THEN data ELSE latest[i]]
        ELSE Append(latest, data)

RECURSIVE NormalizeLoop(_, _, _)
\* aggregate.py 372-411: for row in rows
NormalizeLoop(latest, outcomes, order) ==
    IF order = <<>> THEN latest
    ELSE NormalizeLoop(PutLatest(latest, outcomes[Head(order)]), outcomes, Tail(order))

\* normalize_odds(session)
NormalizeOdds ==
    /\ nPc = "call"
    /\ \E order \in OddsOrders(nOutcomes) :
          nLatest' = NormalizeLoop(nLatest, nOutcomes, order)
    /\ nCount' = Len(nOutcomes)
    /\ nPc' = "done"
    /\ UNCHANGED nOutcomes
    /\ UNCHANGED exceptN

----------------------------------------------------------------------------
(* fetch_collection as a process: a call starts at page 1; each iteration  *)
(* requests wPage, the provider answers, the walker yields the records and *)
(* picks the next page or ends.                                            *)

\* api.py 104, sportmonks_client.py 77: page = 1
WalkStart ==
    /\ wPc \in {"idle", "done"}
    /\ wPc' = "req"
    /\ wPage' = 1
    /\ wMeta' = NoMeta
    /\ wN' = 0
    /\ wLog' = <<>>
    /\ UNCHANGED <<wImpl, wStyle, wNum, wLast>>
    /\ UNCHANGED exceptW

\* the honest provider answers the request for wPage
RespondHonest ==
    /\ wPc = "req"
    /\ wStyle \in Styles
    /\ wPc' = "resp"
    /\ wMeta' = HonestMeta(wStyle, wNum, wPage)
    /\ wN' = PageSize(wNum, wLast, wPage)
    /\ UNCHANGED <<wImpl, wStyle, wNum, wLast, wPage, wLog>>
    /\ UNCHANGED exceptW

\* any provider: any number of records with any metadata, as long as the
\* page the walker would ask for next stays within the model's page numbers
RespondAny ==
    /\ wPc = "req"
    /\ wStyle = "any"
    /\ \E m \in Metas, n \in 0..PerPage :
          /\ NextPage(wImpl, m, wPage, n) <= MaxPage
          /\ wMeta' = m
          /\ wN' = n
    /\ wPc' = "resp"
    /\ UNCHANGED <<wImpl, wStyle, wNum, wLast, wPage, wLog>>
    /\ UNCHANGED exceptW

\* api.py 108-142, sportmonks_client.py 82-121: yield the page, then
\* continue with the next page or end. The payload in hand is dropped when
\* the loop goes round; the records are kept only for a finite collection.
Consume ==
    /\ wPc = "resp"
    /\ LET nxt == NextPage(wImpl, wMeta, wPage, wN)
       IN  /\ wPc' = IF nxt = 0 THEN "done" ELSE "req"
           /\ wPage' = IF nxt = 0 THEN wPage ELSE nxt
           /\ wMeta' = IF nxt = 0 THEN wMeta ELSE NoMeta
           /\ wN' = IF nxt = 0 THEN wN ELSE 0
    /\ wLog' = IF wStyle \in Styles THEN wLog \o PageItems(wPage, wN) ELSE wLog
    /\ UNCHANGED <<wImpl, wStyle, wNum, wLast>>
    /\ UNCHANGED exceptW

----------------------------------------------------------------------------
(* Specifications, one per component. *)

\* no call of fetch_collection is running
WalkIdle ==
    /\ wPc = "idle" /\ wPage = 0 /\ wMeta = NoMeta /\ wN = 0 /\ wLog = <<>>

StreamIdle ==
    /\ sKind = "teams" /\ sStyle = "has_more" /\ sNum = 0
    /\ sCursor = 0 /\ sRows = {} /\ sPc = "idle" /\ sIdAfter = 0 /\ sPage = 0
    /\ sQueue = <<>> /\ sMeta = NoMeta /\ sRaised = FALSE /\ sDone = <<>>
    /\ sBoundary = {} /\ sMidPage = FALSE /\ sReqFailed = FALSE

FixIdle ==
    /\ fUp = <<>> /\ fDetails = FALSE /\ fLimit = 0 /\ fRuns = 0
    /\ fFixtures = {} /\ fParts = {} /\ fTeamStats = {} /\ fPlayerStats = {}
    /\ fPlayers = {}

OddsIdle ==
    /\ oFeed = <<>> /\ oRows = {} /\ oBookmakers = {} /\ oMarkets = {}
    /\ oErr = "none" /\ oSameHash = FALSE /\ oPriceOnly = FALSE
    /\ oAssigned = 0 /\ oChanged = 0 /\ oInserted = 0

LimiterIdle ==
    /\ rThreads = {} /\ rMinInterval = 0 /\ rClock = 0 /\ rLastTs = 0
    /\ rPc = <<>> /\ rNow = <<>> /\ rWake = <<>> /\ rPath = <<>>
    /\ rPrev = NoRelease /\ rCur = NoRelease

RequestIdle ==
    /\ qImpl = "api" /\ qMaxRetries = 0 /\ qPc = "idle" /\ qAttempt = 0
    /\ qBackoff = 0 /\ qResp = NoResponse /\ qSleeps = <<>> /\ qResult = NoResult

UpsertIdle ==
    /\ uTable = {} /\ uClock = 0 /\ uData = NoFields /\ uFound = FALSE

WorkersIdle ==
    /\ kOp = <<>> /\ kItem = <<>> /\ kIdx = <<>> /\ kPhase = <<>>
    /\ kFound = <<>> /\ kRows = {} /\ kErr = <<>>

ScoresIdle == gRaw = <<>> /\ gMapped = <<>> /\ gTable = {} /\ gPrev = {}

HistoryIdle ==
    /\ hStart = 0 /\ hEnd = 0 /\ hLimit = 0 /\ hCursor = 0 /\ hTotal = 0
    /\ hChunks = <<>> /\ hStore = {} /\ hPc = "idle"

PassIdle ==
    /\ pN = 0 /\ pBad = {} /\ pLimit = 0 /\ pFetched = 0 /\ pNext = 0
    /\ pSession = {} /\ pStore = {} /\ pPc = "idle" /\ pErr = "none"

ExportIdle ==
    /\ eRows = <<>> /\ eDryRun = FALSE /\ eKeep = <<>> /\ eTodo = <<>>
    /\ eExport = {} /\ ePrimary = {} /\ eDeleted = {} /\ ePc = "idle"

FormIdle ==
    /\ mKind = "none" /\ mFixtures = <<>> /\ mSample = 0 /\ mOld = <<>>
    /\ mForm = <<>> /\ mResult = <<>> /\ mPc = "idle"

RateIdle ==
    /\ vImpl = "none" /\ vValues = <<>> /\ vLine2 = 0 /\ vMin = 0
    /\ vResult = <<>> /\ vPc = "idle"

BestIdle ==
    /\ bImpl = "none" /\ bFixtures = <<>> /\ bSizes = <<>> /\ bLine2 = 0
    /\ bMin = 0 /\ bIdx = 0 /\ bBest = <<>> /\ bPc = "idle"

AggregateIdle ==
    /\ aFixtures = <<>> /\ aSizes = {} /\ aTeamForms = <<>> /\ aPlayerForms = <<>>
    /\ aErr = "none" /\ aLast = "none" /\ aPrev = <<>> /\ aOps = 0

NormalizeIdle ==
    /\ nOutcomes = <<>> /\ nLatest = <<>> /\ nCount = 0 /\ nPc = "idle"

\* every component but c is idle
IdleExcept(c) ==
    /\ IF c = "walk" THEN TRUE
       ELSE wImpl = "api" /\ wStyle = "any" /\ wNum = 0 /\ wLast = 0 /\ WalkIdle
    /\ IF c = "stream" THEN TRUE ELSE StreamIdle
    /\ IF c = "fix" THEN TRUE ELSE FixIdle
    /\ IF c = "odds" THEN TRUE ELSE OddsIdle
    /\ IF c = "limiter" THEN TRUE ELSE LimiterIdle
    /\ IF c = "request" THEN TRUE ELSE RequestIdle
    /\ IF c = "upsert" THEN TRUE ELSE UpsertIdle
    /\ IF c = "workers" THEN TRUE ELSE WorkersIdle
    /\ IF c = "scores" THEN TRUE ELSE ScoresIdle
    /\ IF c = "history" THEN TRUE ELSE HistoryIdle
    /\ IF c = "pass" THEN TRUE ELSE PassIdle
    /\ IF c = "export" THEN TRUE ELSE ExportIdle
    /\ IF c = "form" THEN TRUE ELSE FormIdle
    /\ IF c = "rate" THEN TRUE ELSE RateIdle
    /\ IF c = "best" THEN TRUE ELSE BestIdle
    /\ IF c = "aggregate" THEN TRUE ELSE AggregateIdle
    /\ IF c = "normalize" THEN TRUE ELSE NormalizeIdle

InitWalk ==
    /\ wImpl \in {"api", "sm"}
    /\ wStyle \in Styles
    /\ wNum \in 1..MaxPage
    /\ wLast \in 1..PerPage
    /\ WalkIdle
    /\ IdleExcept("walk")

NextWalk == WalkStart \/ RespondHonest \/ Consume

SpecWalk == InitWalk /\ [][NextWalk]_vars

InitWalkAny ==
    /\ wImpl \in {"api", "sm"}
    /\ wStyle = "any"
    /\ wNum = 0
    /\ wLast = 0
    /\ WalkIdle
    /\ IdleExcept("walk")

NextWalkAny == WalkStart \/ RespondAny \/ Consume

SpecWalkAny == InitWalkAny /\ [][NextWalkAny]_vars

\* a response always arrives and the generator is always resumed by its caller
SpecWalkAnyFair ==
    SpecWalkAny /\ WF_vars(RespondAny) /\ WF_vars(Consume)

InitStream ==
    /\ sKind \in {"teams", "players"}
    /\ sStyle \in Styles
    /\ sNum \in 0..MaxIds
    /\ sCursor = 0 /\ sRows = {} /\ sPc = "idle" /\ sIdAfter = 0 /\ sPage = 0
    /\ sQueue = <<>> /\ sMeta = NoMeta /\ sRaised = FALSE /\ sDone = <<>>
    /\ sBoundary = {} /\ sMidPage = FALSE /\ sReqFailed = FALSE
    /\ IdleExcept("stream")

NextStream == StreamStep

SpecStream == InitStream /\ [][NextStream]_vars

InitFix ==
    /\ fUp \in UNION {Windows(n) : n \in 0..MaxFix}
    /\ fDetails \in BOOLEAN
    /\ fLimit \in 0..MaxFix
    /\ fRuns = 0
    /\ fFixtures = {} /\ fParts = {} /\ fTeamStats = {} /\ fPlayerStats = {}
    /\ fPlayers = {}
    /\ IdleExcept("fix")

NextFix == SyncFixturesBetween

SpecFix == InitFix /\ [][NextFix]_vars

InitOdds ==
    /\ oFeed \in UNION {[1..n -> OddsIdentities] : n \in 1..MaxFeed}
    /\ oRows = {} /\ oBookmakers = {} /\ oMarkets = {}
    /\ oErr = "none" /\ oSameHash = FALSE /\ oPriceOnly = FALSE
    /\ oAssigned = 0 /\ oChanged = 0 /\ oInserted = 0
    /\ IdleExcept("odds")

NextOdds == SyncOdds \/ Reprice

SpecOdds == InitOdds /\ [][NextOdds]_vars

InitLimiter(threads) ==
    /\ rThreads = threads
    /\ rMinInterval \in 2..MaxInterval
    /\ rClock = StartClock
    /\ rLastTs = 0
    /\ rPc = [w \in threads |-> "idle"]
    /\ rNow = [w \in threads |-> 0]
    /\ rWake = [w \in threads |-> 0]
    /\ rPath = [w \in threads |-> "teams"]
    /\ rPrev = NoRelease /\ rCur = NoRelease
    /\ IdleExcept("limiter")

NextLimiter ==
    \/ \E w \in rThreads : LimCall(w)
    \/ \E w \in rThreads : LimRead(w)
    \/ \E w \in rThreads : LimWake(w)
    \/ \E w \in rThreads : LimStamp(w)
    \/ \E w \in rThreads : LimSend(w)
    \/ Tick

\* one caller
SpecLimiterOne == InitLimiter({1}) /\ [][NextLimiter]_vars

\* two sync streams on two threads share the client
SpecLimiterTwo == InitLimiter({1, 2}) /\ [][NextLimiter]_vars

InitRequest ==
    /\ qImpl \in {"api", "sm"}
    /\ qMaxRetries \in 1..MaxRetries
    /\ qPc = "idle" /\ qAttempt = 0 /\ qBackoff = 0 /\ qResp = NoResponse
    /\ qSleeps = <<>> /\ qResult = NoResult
    /\ IdleExcept("request")

NextRequest == ReqStart \/ ReqTry \/ ReqHandle

SpecRequest == InitRequest /\ [][NextRequest]_vars

InitUpsert ==
    /\ uTable = {} /\ uClock = 0 /\ uData = NoFields /\ uFound = FALSE
    /\ IdleExcept("upsert")

NextUpsert == UpsertRow

SpecUpsert == InitUpsert /\ [][NextUpsert]_vars

InitWorkers ==
    /\ kOp \in {f \in [{1, 2} -> SyncOps] : f[1] # f[2]}
    /\ kItem = [w \in {1, 2} |-> <<1, 1>>]
    /\ kIdx = [w \in {1, 2} |-> 1]
    /\ kPhase = [w \in {1, 2} |-> "idle"]
    /\ kFound = [w \in {1, 2} |-> FALSE]
    /\ kRows = {}
    /\ kErr = [w \in {1, 2} |-> "none"]
    /\ IdleExcept("workers")

NextWorkers ==
    \/ \E w \in DOMAIN kOp : WorkStart(w)
    \/ \E w \in DOMAIN kOp : WorkRead(w)
    \/ \E w \in DOMAIN kOp : WorkWrite(w)

SpecWorkers == InitWorkers /\ [][NextWorkers]_vars

InitScores ==
    /\ gRaw \in RawScores
    /\ gMapped = NoMapped
    /\ gTable = {}
    /\ gPrev = {}
    /\ IdleExcept("scores")

NextScores == MapFixture

SpecScores == InitScores /\ [][NextScores]_vars

InitResync ==
    /\ gRaw = NoRaw
    /\ gMapped = NoMapped
    /\ gTable = {}
    /\ gPrev = {}
    /\ IdleExcept("scores")

NextResync == SyncFixture

SpecResync == InitResync /\ [][NextResync]_vars

\* sync.py 452-468
InitHistory ==
    /\ \E days_back \in 0..MaxBack, days_forward \in 0..MaxForward :
          /\ hStart = Today - days_back
          /\ hEnd = Today + days_forward
    /\ hLimit \in {NoLimit} \cup 0..MaxLimit
    /\ hCursor = hStart
    /\ hTotal = 0
    /\ hChunks = <<>>
    /\ hStore = {}
    /\ hPc = "loop"
    /\ IdleExcept("history")

NextHistory == HistChunk \/ HistChunkFail \/ HistReturn

SpecHistory == InitHistory /\ [][NextHistory]_vars

\* the loop of sync_history_window runs on: a turn that can be taken is taken
SpecHistoryFair == SpecHistory /\ WF_vars(NextHistory)

InitPass ==
    /\ pN \in 1..(MaxPage * PerPage)
    /\ pBad \in SUBSET (1..pN)
    /\ pLimit \in 0..MaxLimit
    /\ pFetched = 0
    /\ pNext = 1
    /\ pSession = {}
    /\ pStore = {}
    /\ pPc = "walk"
    /\ pErr = "none"
    /\ IdleExcept("pass")

NextPass == PassFetch \/ PassFetchFail \/ PassItem \/ PassCommit

SpecPass == InitPass /\ [][NextPass]_vars

\* the seasons table as get_keep_seasons reads it, any dates and flags
InitKeep ==
    /\ eRows \in UNION {[1..n -> SeasonRows] : n \in 1..MaxSeasons}
    /\ eRows[1].league_id = 1
    /\ eDryRun = FALSE
    /\ eKeep = <<>>
    /\ eTodo = <<>>
    /\ eExport = FixturesOf(eRows)
    /\ ePrimary = FixturesOf(eRows)
    /\ eDeleted = {}
    /\ ePc = "start"
    /\ IdleExcept("export")

NextKeep == GetKeepSeasons

SpecKeep == InitKeep /\ [][NextKeep]_vars

\* seasons of any league and flag, each a day long, in the order of their
\* dates
DatedRows(n) ==
    {[i \in 1..n |-> [league_id |-> f[i][1], start_date |-> i, end_date |-> i,
                      is_current |-> f[i][2]]] :
        f \in [1..n -> Leagues \X BOOLEAN]}

InitPrune ==
    /\ eRows \in UNION {DatedRows(n) : n \in 1..MaxSeasons}
    /\ eDryRun \in BOOLEAN
    /\ eKeep = <<>>
    /\ eTodo = <<>>
    /\ eExport = FixturesOf(eRows)
    /\ ePrimary = FixturesOf(eRows)
    /\ eDeleted = {}
    /\ ePc = "start"
    /\ IdleExcept("export")

NextPrune == GetKeepSeasons \/ DeleteLeague \/ DeleteFail \/ DeleteReturn

SpecPrune == InitPrune /\ [][NextPrune]_vars

InitForm ==
    /\ mKind \in {"team", "player"}
    /\ mFixtures \in UNION {[1..n -> FormFixtures] : n \in 0..MaxFix}
    /\ mSample \in 1..MaxSample
    /\ mOld \in {NoForm, OldForm}
    /\ mForm = mOld
    /\ mResult = NoForm
    /\ mPc = "call"
    /\ IdleExcept("form")

NextForm == ComputeForm

SpecForm == InitForm /\ [][NextForm]_vars

InitRate ==
    /\ vImpl \in {"team", "player"}
    /\ vValues \in UNION {[1..n -> {NoValue} \cup 0..MaxValue] : n \in 0..MaxValues}
                      \cup {ExampleValues}
    /\ vLine2 \in 1..MaxLine2
    /\ vMin \in 0..MaxMin
    /\ vResult = RateNone
    /\ vPc = "call"
    /\ IdleExcept("rate")

NextRate == RateOver

SpecRate == InitRate /\ [][NextRate]_vars

InitBest ==
    /\ bImpl \in {"team", "player"}
    /\ bFixtures \in UNION {[1..n -> {NoValue} \cup 0..MaxValue] : n \in 0..MaxValues}
    /\ bSizes \in UNION {[1..n -> 1..MaxSize] : n \in 1..2}
    /\ bLine2 \in 1..MaxLine2
    /\ bMin \in 0..MaxMin
    /\ bIdx = 1
    /\ bBest = BestNone
    /\ bPc = "loop"
    /\ IdleExcept("best")

NextBest == BestSkip \/ BestTake \/ BestKeep \/ BestRaise \/ BestReturn

SpecBest == InitBest /\ [][NextBest]_vars

RECURSIVE StoreRows(_, _)
\* the stores of n fixtures, fixture i of the kinds K(i)
StoreRows(K(_), n) ==
    IF n = 0 THEN {<<>>}
    ELSE {Append(f, fx) : f \in StoreRows(K, n - 1), fx \in K(n)}

\* the stores of up to MaxFix fixtures
StoreOf(K(_)) == UNION {StoreRows(K, n) : n \in 0..MaxFix}

\* a fixture for the table claims: dated, scored 1-0 or not, the player
\* with a stat line or not
TableFixtures(i) ==
    {[starting_at |-> i, home_score |-> sc[1], away_score |-> sc[2], line |-> l] :
        sc \in {<<NoScore, NoScore>>, <<1, 0>>},
        l \in {NoLine, [shots |-> 1, shots_on |-> 1, goals |-> 0]}}

\* a fixture for the team rows: any score or none
TeamFixtures(i) ==
    [starting_at : {i}, home_score : Goals \cup {NoScore},
     away_score : Goals \cup {NoScore}, line : {NoLine}]

\* a fixture for the player rows: goals <= shots on target <= shots, up to
\* two on target
LinedFixtures(i) ==
    [starting_at : {i}, home_score : {NoScore}, away_score : {NoScore},
     line : {NoLine} \cup
            {l \in [shots : 0..MaxShots, shots_on : 0..2, goals : 0..2] :
                l.goals <= l.shots_on /\ l.shots_on <= l.shots}]

InitAggregate(K(_)) ==
    /\ aFixtures \in StoreOf(K)
    /\ aTeamForms = <<>>
    /\ aPlayerForms = <<>>
    /\ aErr = "none"
    /\ aLast = "start"
    /\ aPrev = <<>>
    /\ aOps = 0
    /\ IdleExcept("aggregate")

\* any sequence of calls on a store; a bulk run is called with one sample
\* size or with all
InitForms ==
    /\ aSizes \in {{x} : x \in 0..MaxSample} \cup {0..MaxSample}
    /\ InitAggregate(TableFixtures)

NextForms == CallTeamForm \/ CallPlayerForm \/ BulkComputeForms

SpecForms == InitForms /\ [][NextForms]_vars

\* two bulk runs on a store, the tables left by a run on the store as it was
\* before
InitBulk ==
    /\ aSizes \in SUBSET (1..MaxSample) \ {{}}
    /\ \E before \in StoreOf(TableFixtures) :
          LET st == BulkLoop(NoTables, before, SampleSizes(aSizes))
          IN  aTeamForms = st.team /\ aPlayerForms = st.player
    /\ aFixtures \in StoreOf(TableFixtures)
    /\ aErr = "none"
    /\ aLast = "start"
    /\ aPrev = <<>>
    /\ aOps = MaxOps - 2
    /\ IdleExcept("aggregate")

NextBulk == BulkComputeForms

SpecBulk == InitBulk /\ [][NextBulk]_vars

\* the last call of a run
LastCall(K(_)) ==
    /\ aFixtures \in StoreOf(K)
    /\ aSizes = {}
    /\ aTeamForms = <<>>
    /\ aPlayerForms = <<>>
    /\ aErr = "none"
    /\ aLast = "start"
    /\ aPrev = <<>>
    /\ aOps = MaxOps - 1
    /\ IdleExcept("aggregate")

\* compute_team_form on stores of scored and unscored fixtures
InitTeamForm == LastCall(TeamFixtures)

NextTeamForm == CallTeamForm

SpecTeamForm == InitTeamForm /\ [][NextTeamForm]_vars

\* compute_player_form on stores of stat lines
InitPlayerForm == LastCall(LinedFixtures)

NextPlayerForm == CallPlayerForm

SpecPlayerForm == InitPlayerForm /\ [][NextPlayerForm]_vars

RECURSIVE OutcomeTables(_)
\* the tables of n outcomes, no two of one uq_odds_outcome_key
OutcomeTables(n) ==
    IF n = 0 THEN {<<>>}
    ELSE {Append(t, row) : t \in OutcomeTables(n - 1), row \in OutcomeRows}

InitNormalize ==
    /\ nOutcomes \in UNION {OutcomeTables(n) : n \in 0..MaxOutcomes}
    /\ \A i, j \in DOMAIN nOutcomes :
          i # j => OutcomeKey(nOutcomes[i]) # OutcomeKey(nOutcomes[j])
    /\ nLatest = <<>>
    /\ nCount = 0
    /\ nPc = "call"
    /\ IdleExcept("normalize")

NextNormalize == NormalizeOdds

SpecNormalize == InitNormalize /\ [][NextNormalize]_vars

----------------------------------------------------------------------------
(* Claims about the pagination walkers. *)

\* C4: for a finite multi-page collection fetch_collection yields every
\* record of every page exactly once and in the original order, whichever
\* single pagination signal (next_page URL, has_more, current/total pages)
\* the provider uses.  Stated of both walkers.
C4_YieldsEveryRecordInOrder ==
    wPc = "done" => wLog = AllRecords(wNum, wLast)

\* The same statement of jxd/api.py alone, and of sportmonks_client.py for
\* the two signals it reads; both hold.
ApiYieldsEveryRecordInOrder ==
    (wPc = "done" /\ wImpl = "api") => wLog = AllRecords(wNum, wLast)

SmYieldsEveryRecordWithoutUrl ==
    (wPc = "done" /\ wImpl = "sm" /\ wStyle # "url")
        => wLog = AllRecords(wNum, wLast)

\* what sportmonks_client.py does with a next_page URL: it ends after page 1
SmStopsAfterFirstPageOnUrl ==
    (wPc = "done" /\ wImpl = "sm" /\ wStyle = "url")
        => wLog = PageItems(1, PageSize(wNum, wLast, 1))

Usable(tok) == tok.kind \in {"int", "url", "digits"}

\* C5: after each (non-empty) page the next page is chosen in priority
\* order: a usable next_page token (the page parameter of a URL) decides;
\* otherwise has_more true gives current+1; otherwise
\* current_page < total_pages gives current+1.
C5_NextPagePriority ==
    [][(wPc = "resp" /\ wN > 0) =>
        LET cur == IF wMeta.current # 0 THEN wMeta.current ELSE wPage
        IN  /\ Usable(wMeta.next) => (wPc' = "req" /\ wPage' = wMeta.next.page)
            /\ (~Usable(wMeta.next) /\ wMeta.has_more = "true")
                  => (wPc' = "req" /\ wPage' = cur + 1)
            /\ (~Usable(wMeta.next) /\ wMeta.has_more # "true"
                  /\ wMeta.current # 0 /\ wMeta.current < wMeta.total)
                  => (wPc' = "req" /\ wPage' = wMeta.current + 1)]_vars

\* C5 of jxd/api.py alone; holds.
ApiNextPagePriority ==
    [][(wPc = "resp" /\ wImpl = "api") =>
        LET cur == IF wMeta.current # 0 THEN wMeta.current ELSE wPage
        IN  /\ Usable(wMeta.next) => (wPc' = "req" /\ wPage' = wMeta.next.page)
            /\ (~Usable(wMeta.next) /\ wMeta.has_more = "true")
                  => (wPc' = "req" /\ wPage' = cur + 1)
            /\ (~Usable(wMeta.next) /\ wMeta.has_more # "true"
                  /\ wMeta.current # 0 /\ wMeta.current < wMeta.total)
                  => (wPc' = "req" /\ wPage' = wMeta.current + 1)]_vars

NoSignal(meta) ==
    /\ ~Usable(meta.next)
    /\ meta.has_more # "true"
    /\ ~(meta.current # 0 /\ meta.current < meta.total)

\* C6: the walk stops when none of the three pagination signals applies or
\* when a page returns zero records, whatever the metadata of that page says.
C6_StopsOnEmptyPageOrNoSignal ==
    [][(wPc = "resp" /\ (wN = 0 \/ NoSignal(wMeta))) => wPc' = "done"]_vars

\* The two halves of C6, each of the walker that keeps it; both hold.
SmStopsOnEmptyPage ==
    [][(wPc = "resp" /\ wImpl = "sm" /\ wN = 0) => wPc' = "done"]_vars

ApiStopsOnNoSignal ==
    [][(wPc = "resp" /\ wImpl = "api" /\ NoSignal(wMeta)) => wPc' = "done"]_vars

\* C7: the sequence is finite: for every sequence of provider responses a
\* walk that has requested a page eventually ends.
C7_WalkTerminates == (wPc = "req") ~> (wPc = "done")

\* C7, second half: every fresh call starts at page 1; holds.
FreshCallStartsAtPageOne ==
    [][(wPc \in {"idle", "done"} /\ wPc' = "req") => wPage' = 1]_vars

----------------------------------------------------------------------------
(* Claims about the resumable streams. *)

\* C8: at-least-once re-delivery: whatever the interruptions and restarts
\* from the persisted cursor, once a run of the stream ends normally every
\* record of the collection has been upserted and committed by some run; the
\* cursor makes no run skip a record.
C8_EveryRecordUpserted ==
    sPc = "done" => \A i \in 1..sNum : i \in sRows

\* a run interrupted in the middle of a page, restarted, and run to its end
C8_Witness ==
    sPc = "done" /\ sMidPage /\ sNum > PerPage

\* C9 as stated: in every committed state the cursor is absent or the id of
\* the last record of a fully processed page.
C9_CursorAtPageBoundary ==
    sCursor = 0 \/ sCursor \in sBoundary

\* C9 amended: the cursor moves once per processed record: in every
\* committed state it is absent (nothing processed yet) or the id of the
\* record whose upsert was committed last.
C9_CursorAtLastRecord ==
    sCursor = LastOf(sDone)

\* an interruption in the middle of a page has left the cursor on a record
\* that ends no page
C9_Witness ==
    sPc = "idle" /\ sMidPage /\ sCursor # 0 /\ sCursor \notin sBoundary

\* C10: when a page request of the stream fails the call ends by raising to
\* its caller and the cursor stays at the last committed position.
C10_FailureKeepsCursor ==
    sReqFailed => (sPc = "failed" /\ sRaised /\ sCursor = LastOf(sDone))

\* a request fails after part of the collection was committed
C10_Witness ==
    sReqFailed /\ sPc = "failed" /\ sCursor # 0 /\ sCursor < sNum

\* C10, resumption: a call started after the failure filters by the cursor
\* the failed call left; holds.
ResumesFromCursor ==
    [][(sPc = "failed" /\ sPc' = "fetch") => (sIdAfter' = sCursor /\ sPage' = 1)]_vars

----------------------------------------------------------------------------
(* Claims about the fixture window sync. *)

\* C1: running the same sync window again against an unchanged upstream
\* produces no net change: every entity row keeps its field values and no
\* table gains a row.
C1_SecondRunChangesNothing ==
    [][(fRuns >= 1 /\ fRuns' = fRuns + 1) => ftables' = ftables]_vars

NoBareLineup ==
    \A i \in 1..Len(fUp) : \A j \in 1..Len(fUp[i].lineups) : fUp[i].lineups[j].nested

\* C1 of the windows that need no player row of a None id: without details,
\* or with every lineup entry carrying its nested player; holds.
SecondRunChangesNothingOnNestedPlayers ==
    [][(fRuns >= 1 /\ fRuns' = fRuns + 1 /\ (~fDetails \/ NoBareLineup))
        => ftables' = ftables]_vars

\* what a lineup entry without its nested player does: each run adds a
\* player row; holds.
BareLineupAddsPlayerRow ==
    [][(fRuns' = fRuns + 1 /\ fDetails /\ ~NoBareLineup
          /\ (fLimit = 0 \/ fLimit >= Len(fUp)))
        => Cardinality(fPlayers') > Cardinality(fPlayers)]_vars

----------------------------------------------------------------------------
(* Claims about the odds store. *)

DistinctOutcomes(feed) ==
    \A i, j \in 1..Len(feed) :
        i # j => OddsKey(OddsData(OddsFixture, feed[i]))
                    # OddsKey(OddsData(OddsFixture, feed[j]))

\* C2: re-ingesting the same odds rows never creates a duplicate
\* OddsOutcome: after every call there is at most one row per natural key
\* (fixture, bookmaker, market, label, participant, handicap, total) and at
\* most one row per provider outcome id, for every row shape.
\* The feed is one of distinct outcomes: no two of its rows are stored
\* under the same natural key.
C2_NoDuplicateOutcome ==
    DistinctOutcomes(oFeed) =>
        \A r1, r2 \in oRows :
            r1.id # r2.id =>
                /\ OddsKey(r1) # OddsKey(r2)
                /\ (r1.provider_outcome_id # 0
                        => r1.provider_outcome_id # r2.provider_outcome_id)

ConsistentNames(row) ==
    row.name = NULL \/ row.participant = NULL \/ row.name = row.participant

\* C2 of the feeds whose rows do not carry a name and a participant that
\* differ; holds.
NoDuplicateOutcomeOnConsistentNames ==
    (\A i \in 1..Len(oFeed) : ConsistentNames(oFeed[i])) => C2_NoDuplicateOutcome

\* C2, second half alone: at most one row per provider outcome id; holds.
NoDuplicateProviderId ==
    \A r1, r2 \in oRows :
        (r1.id # r2.id /\ r1.provider_outcome_id # 0)
            => r1.provider_outcome_id # r2.provider_outcome_id

\* C3: re-ingesting a payload whose raw_hash is the stored row's changes no
\* row and inserts none; a payload differing from the stored one only in
\* its price changes exactly one row and inserts none.
C3_HashSkipsAndPriceUpdates ==
    /\ (oSameHash /\ oErr = "none") => (oChanged = 0 /\ oInserted = 0)
    /\ (oPriceOnly /\ oErr = "none") => (oChanged = 1 /\ oInserted = 0)

\* C3 of the feeds with consistent names; holds.
HashSkipsAndPriceUpdatesOnConsistentNames ==
    (\A i \in 1..Len(oFeed) : ConsistentNames(oFeed[i])) => C3_HashSkipsAndPriceUpdates

\* the raw_hash comparison is made on the natural-key path only (914): a
\* row found by its provider outcome id has its columns assigned again even
\* though the hash is the stored one; holds.
ProviderIdPathAssigns ==
    (oSameHash /\ oErr = "none" /\ Len(oFeed) = 1 /\ oFeed[1].id # 0)
        => (oAssigned = 1 /\ oChanged = 0)

----------------------------------------------------------------------------
(* Claims about the rate limiter. *)

\* C11: with a single caller, two consecutive requests of the client are
\* released at least min_interval apart, whatever their endpoints.
C11_RequestsSpaced ==
    (Cardinality(rThreads) = 1 /\ rPrev # NoRelease)
        => rCur.t - rPrev.t >= rMinInterval

\* two consecutive requests to different endpoints, the second held back
C11_Witness ==
    /\ Cardinality(rThreads) = 1
    /\ rPrev # NoRelease /\ rCur.path # rPrev.path /\ rCur.slept
    /\ rCur.t - rPrev.t = rMinInterval

\* C12: with several threads on the one limiter no two requests of any
\* threads are released less than min_interval apart.
C12_ConcurrentRequestsSpaced ==
    rPrev # NoRelease => rCur.t >= rPrev.t + rMinInterval

----------------------------------------------------------------------------
(* Claims about retries and failures of a request. *)

\* network error, HTTP 429 or 5xx
Transient(resp) ==
    resp.status = 0 \/ resp.status = 429 \/ (500 <= resp.status /\ resp.status < 600)

Succeeded(resp) == resp.status = 200 /\ resp.json

\* C13: a transient failure below the retry limit is followed by another
\* attempt; a success within the limit is returned; a transient failure
\* at the limit ends the call with an error; never more attempts than the
\* limit.
C13_TransientRetried ==
    [][qPc = "resp" =>
          /\ qAttempt <= qMaxRetries
          /\ (Transient(qResp) /\ qAttempt < qMaxRetries) => qPc' \in {"resp", "try"}
          /\ (Transient(qResp) /\ qAttempt >= qMaxRetries)
                => (qPc' = "resp" \/ (qPc' = "done" /\ qResult'.kind = "error"))
          /\ Succeeded(qResp)
                => (qPc' = "resp" \/ (qPc' = "done" /\ qResult' = Returned))]_vars

\* C13 of sportmonks_client.request alone; holds.
SmTransientRetried ==
    [][(qImpl = "sm" /\ qPc = "resp") =>
          /\ qAttempt <= qMaxRetries
          /\ (Transient(qResp) /\ qAttempt < qMaxRetries) => qPc' \in {"resp", "try"}
          /\ (Transient(qResp) /\ qAttempt >= qMaxRetries)
                => (qPc' = "resp" \/ (qPc' = "done" /\ qResult'.kind = "error"))
          /\ Succeeded(qResp)
                => (qPc' = "resp" \/ (qPc' = "done" /\ qResult' = Returned))]_vars

\* api._request makes one attempt, whatever its outcome; holds.
ApiNeverRetries == qImpl = "api" => (qAttempt <= 1 /\ qSleeps = <<>>)

RECURSIVE Pow2(_)
Pow2(n) == IF n = 0 THEN 1 ELSE 2 * Pow2(n - 1)

\* C14: the delay slept before the k-th retry is min(2^(k-1), 16) seconds.
C14_BackoffDoublesCappedAt16 ==
    \A k \in 1..Len(qSleeps) : qSleeps[k] = Min(Pow2(k - 1), 16)

\* C14 of the retries after 429 / 5xx responses only; holds.
BackoffCappedOnStatusRetries ==
    [][(qPc = "resp" /\ qResp.status # 0 /\ Len(qSleeps') > Len(qSleeps))
          => qBackoff' <= 16]_vars

\* C14 up to the default retry limit of 5; holds.
BackoffWithinDefaultLimit ==
    qMaxRetries <= 5 => C14_BackoffDoublesCappedAt16

NonRetryable(resp) ==
    /\ resp.status # 0
    /\ ~(200 <= resp.status /\ resp.status < 300)
    /\ ~Transient(resp)

\* C15: a response with a non-2xx, non-retryable status ends the call at
\* once with an error carrying the status and the body: no sleep and no
\* further attempt, and a single attempt when it answers the first one.
C15_NonRetryableFailsAtOnce ==
    [][(qPc = "resp" /\ NonRetryable(qResp)) =>
          \/ qPc' = "resp"
          \/ /\ qPc' = "done"
             /\ qResult' = Raised(qResp.status, TRUE)
             /\ qSleeps' = qSleeps
             /\ qAttempt' = qAttempt]_vars

\* C15 of the statuses from 400 on; holds of both clients.
ErrorStatusFailsAtOnce ==
    [][(qPc = "resp" /\ NonRetryable(qResp) /\ qResp.status >= 400) =>
          \/ qPc' = "resp"
          \/ /\ qPc' = "done"
             /\ qResult' = Raised(qResp.status, TRUE)
             /\ qSleeps' = qSleeps
             /\ qAttempt' = qAttempt]_vars

\* C15 of sportmonks_client.request, every status; holds.
SmNonRetryableFailsAtOnce ==
    [][(qImpl = "sm" /\ qPc = "resp" /\ NonRetryable(qResp)) =>
          \/ qPc' = "resp"
          \/ /\ qPc' = "done"
             /\ qResult' = Raised(qResp.status, TRUE)
             /\ qSleeps' = qSleeps
             /\ qAttempt' = qAttempt]_vars

----------------------------------------------------------------------------
(* Claims about _upsert. *)

\* the row of the key of data, before the call
UFoundRow(data) == CHOOSE r \in uTable : r.id = IdOf(data)

UExists(data) == IdOf(data) # 0 /\ \E r \in uTable : r.id = data.id

\* C16: an upsert whose key exists overwrites exactly the fields of the
\* field map and leaves every other column of the row and every other row
\* unchanged; with no row of the key it inserts exactly one row.
C16_UpsertFrame ==
    [][uClock' # uClock =>
          IF UExists(uData')
          THEN \E n \in uTable' :
                  /\ \A c \in UColumns :
                        n[c] = IF c \in DOMAIN uData' THEN uData'[c]
                               ELSE UFoundRow(uData')[c]
                  /\ uTable' \ {n} = uTable \ {UFoundRow(uData')}
          ELSE /\ uTable \subseteq uTable'
               /\ Cardinality(uTable') = Cardinality(uTable) + 1]_vars

\* C16 as amended: the same, but updated_at of the row is set to the time
\* of the call when a value of the row changes, and stays otherwise.
C16_UpsertFrameButUpdatedAt ==
    [][uClock' # uClock =>
          IF UExists(uData')
          THEN \E n \in uTable' :
                  /\ \A c \in UColumns \ {"updated_at"} :
                        n[c] = IF c \in DOMAIN uData' THEN uData'[c]
                               ELSE UFoundRow(uData')[c]
                  /\ n.updated_at =
                        IF \E c \in DOMAIN uData' : uData'[c] # UFoundRow(uData')[c]
                        THEN uClock' ELSE UFoundRow(uData').updated_at
                  /\ uTable' \ {n} = uTable \ {UFoundRow(uData')}
          ELSE /\ uTable \subseteq uTable'
               /\ Cardinality(uTable') = Cardinality(uTable) + 1]_vars

\* the last call changed the name of a stored row and named no country:
\* the row keeps its country
C16_Witness ==
    /\ uFound
    /\ DOMAIN uData = {"id", "name"}
    /\ \E r \in uTable :
          /\ r.id = uData.id /\ r.name = uData.name
          /\ r.country # NULL /\ r.updated_at = uClock
    /\ Cardinality(uTable) > 1

----------------------------------------------------------------------------
(* Claims about concurrent sync operations. *)

\* C17: two distinct sync operations run as concurrent workers never have
\* a read-then-write upsert on the same (table, primary key) at once.
C17_NoSharedRow ==
    \A w1, w2 \in DOMAIN kOp :
        (w1 # w2 /\ kPhase[w1] = "write" /\ kPhase[w2] = "write")
            => KTarget(w1) # KTarget(w2)

\* what follows from the shared row: the INSERT of one worker fails
NoWorkerFails == \A w \in DOMAIN kOp : kErr[w] = "none"

KTables(op) == {Writes(op, <<1, 1>>)[i][1] : i \in 1..Len(Writes(op, <<1, 1>>))}

\* C17 of the pairs of operations that write no common table; holds.
NoSharedRowOnDisjointTables ==
    \A w1, w2 \in DOMAIN kOp :
        (w1 # w2 /\ KTables(kOp[w1]) \cap KTables(kOp[w2]) = {})
            => (/\ (kPhase[w1] = "write" /\ kPhase[w2] = "write")
                      => KTarget(w1) # KTarget(w2)
                /\ kErr[w1] = "none")

----------------------------------------------------------------------------
(* Claims about fixture scores. *)

IsCurrent(entry) == entry.description = "CURRENT"

\* the score the current-tagged entries give the participant, else the
\* first seen
PreferCurrent(list, participant) ==
    IF FirstSeen(SelectSeq(list, IsCurrent), participant, NoScore) # NoScore
    THEN FirstSeen(SelectSeq(list, IsCurrent), participant, NoScore)
    ELSE FirstSeen(list, participant, NoScore)

MixedList(list) ==
    /\ \E i \in DOMAIN list : IsCurrent(list[i])
    /\ \E i \in DOMAIN list : ~IsCurrent(list[i])

\* C18: of a scores array with current-tagged and other entries, the mapped
\* scores are those of the current-tagged entries wherever they stand; the
\* first home and away entries are used only when none is tagged current.
C18_CurrentScoreWins ==
    (gMapped # NoMapped /\ gRaw.shape = "list" /\ MixedList(gRaw.list))
        => /\ gMapped.home_score = PreferCurrent(gRaw.list, "home")
           /\ gMapped.away_score = PreferCurrent(gRaw.list, "away")

\* the entry of the participant at the least index that has goals
IsFirstOf(list, participant, i) ==
    /\ list[i].participant = participant /\ list[i].goals # NoScore
    /\ \A j \in 1..(i - 1) :
          ~(list[j].participant = participant /\ list[j].goals # NoScore)

\* the fallback of C18: the first home and the first away entry are the
\* mapped scores, zeros included; holds (of every list, tagged or not).
FirstSeenUsed ==
    (gMapped # NoMapped /\ gRaw.shape = "list")
        => \A i \in DOMAIN gRaw.list :
              /\ IsFirstOf(gRaw.list, "home", i)
                    => gMapped.home_score = gRaw.list[i].goals
              /\ IsFirstOf(gRaw.list, "away", i)
                    => gMapped.away_score = gRaw.list[i].goals

\* the two keys of a side do not contradict each other
KeysAgree(d, a, b) == d[a] = NoScore \/ d[b] = NoScore \/ d[a] = d[b]

\* the score the dict gives under either key
DictScore(d, a, b) == IF d[a] # NoScore THEN d[a] ELSE d[b]

\* C19, list shape: a first-seen 0 is the mapped score; holds.
ZeroKeptInLists ==
    (gMapped # NoMapped /\ gRaw.shape = "list")
        => /\ \A i \in DOMAIN gRaw.list :
                 (IsFirstOf(gRaw.list, "home", i) /\ gRaw.list[i].goals = 0)
                    => gMapped.home_score = 0
           /\ \A i \in DOMAIN gRaw.list :
                 (IsFirstOf(gRaw.list, "away", i) /\ gRaw.list[i].goals = 0)
                    => gMapped.away_score = 0

\* C19, dict shape: a score of 0 under either key is mapped to 0.
ZeroKeptInDicts ==
    (gMapped # NoMapped /\ gRaw.shape = "dict")
        => /\ (KeysAgree(gRaw.dict, "localteam_score", "home")
                 /\ DictScore(gRaw.dict, "localteam_score", "home") = 0)
                  => gMapped.home_score = 0
           /\ (KeysAgree(gRaw.dict, "visitorteam_score", "away")
                 /\ DictScore(gRaw.dict, "visitorteam_score", "away") = 0)
                  => gMapped.away_score = 0

\* C19: a score of 0 is mapped to 0, never to null, in the list shape and
\* in the dict shape, and a first-seen 0 is not replaced by a later entry.
C19_ZeroIsAScore == ZeroKeptInLists /\ ZeroKeptInDicts

Scored(table) ==
    \E r \in table : r.home_score # NoScore /\ r.away_score # NoScore

\* C20: once the stored fixture has both scores, a later sync of the fixture
\* neither changes them nor makes them null.
C20_ScoredStaysScored == Scored(gPrev) => gTable = gPrev

\* a sync of the fixture leaves one row of its id; holds.
OneFixtureRow ==
    gPrev # {} => (Cardinality(gTable) = 1 /\ \A r \in gTable : r.id = 1)

----------------------------------------------------------------------------
(* Claims about the history window. *)

\* the chunks are inside the range, at most max_span days each, and no day
\* is in two of them
ChunksWellFormed ==
    /\ \A i \in DOMAIN hChunks :
          /\ hStart <= hChunks[i].start /\ hChunks[i].end <= hEnd
          /\ hChunks[i].start <= hChunks[i].end
          /\ hChunks[i].end - hChunks[i].start + 1 <= max_span
    /\ \A i, j \in DOMAIN hChunks :
          i # j => (hChunks[i].end < hChunks[j].start
                        \/ hChunks[j].end < hChunks[i].start)

\* every day of the range is in one chunk
ChunksCover ==
    \A d \in hStart..hEnd :
        \E i \in DOMAIN hChunks : hChunks[i].start <= d /\ d <= hChunks[i].end

\* the loop was left because the limit was reached
LimitStopped == hLimit # NoLimit /\ hTotal >= hLimit

\* C21 as stated: when sync_history_window returns, the passes it issued
\* are at most 95 days each, pairwise disjoint and cover [start, end].
C21_ChunksCoverRange ==
    hPc = "returned" => (ChunksWellFormed /\ ChunksCover)

\* C21: the passes issued are always at most 95 days each and pairwise
\* disjoint, and when sync_history_window returns without the limit having
\* stopped it they cover [start, end], one pass per chunk.
C21_ChunksCoverRangeUnlessLimited ==
    /\ ChunksWellFormed
    /\ (hPc = "returned" /\ ~LimitStopped) => ChunksCover

C21_Witness ==
    /\ hPc = "returned" /\ hLimit = NoLimit /\ Len(hChunks) = 3
    /\ hChunks[1].end - hChunks[1].start + 1 = max_span

\* C22: every chunk requested covers later dates than all chunks requested
\* after it.
C22_NewestFirst ==
    \A i, j \in DOMAIN hChunks :
        i < j => hChunks[i].start > hChunks[j].end

\* the chunks are requested oldest first; holds.
OldestFirst ==
    \A i, j \in DOMAIN hChunks :
        i < j => hChunks[i].end < hChunks[j].start

\* C23: a failed pass aborts its chunk only: the run still returns, and
\* unless the limit stopped it every day of the range was requested.
C23_FailureAbortsOneChunk ==
    /\ hPc # "raised"
    /\ (hPc = "returned" /\ ~LimitStopped) => ChunksCover

\* the chunks that returned stay committed, also after a failure; holds.
CommittedChunksStay ==
    \A i \in DOMAIN hChunks : hChunks[i].ok => i \in hStore

----------------------------------------------------------------------------
(* Claims about one fixtures-between pass. *)

\* the pages whose records have all gone through the loop
FullPages == (pNext - 1) \div PerPage

\* C24: when a pass fails after k fully processed pages, the upserts of
\* those k pages are committed.
C24_PagesDurable ==
    pPc = "raised" => \A i \in 1..(FullPages * PerPage) : i \in pStore

\* the commit is per pass: nothing is committed before the pass returns, and
\* then every record upserted is; holds.
CommitPerPass ==
    /\ pPc # "returned" => pStore = {}
    /\ pPc = "returned" => pStore = pSession

\* C25: a record that cannot be mapped is skipped: the pass does not end on
\* it, and every other record of the window is upserted and committed.
C25_BadRecordSkipped ==
    /\ pErr # "mapping"
    /\ (pPc = "returned" /\ ~PassLimitReached)
          => \A i \in 1..pN : i \notin pBad => i \in pStore

\* a window without bad records is stored whole unless the limit or a
\* failed request ends the pass; holds.
GoodWindowStored ==
    (pPc = "returned" /\ ~PassLimitReached /\ pBad = {}) => pStore = 1..pN

\* the records before the bad one are upserted, none after it; holds.
BadRecordEndsPass ==
    pErr = "mapping" => (pNext \in pBad /\ pSession = 1..(pNext - 1) /\ pStore = {})

----------------------------------------------------------------------------
(* Claims about the seasons kept and the pruning of the export. *)

SeasonSet(league_id) ==
    {SeasonsOf(eRows, league_id)[i] : i \in DOMAIN SeasonsOf(eRows, league_id)}

KeptIds(league_id) == {eKeep[league_id][k] : k \in DOMAIN eKeep[league_id]}

\* the seasons of the league that ended before its current season began
EndedBefore(league_id, current) ==
    {s \in SeasonSet(league_id) :
        s.id # current.id /\ s.end_date # 0 /\ s.end_date < current.start_date}

\* the seasons of the league that end after its current season does, and
\* so have not ended
EndsAfter(league_id, current) ==
    {s \in SeasonSet(league_id) : s.end_date > current.end_date}

\* C26: a league with one season flagged current, seasons that ended before
\* it began and, for the rest, seasons that end after it keeps the current
\* season and the most recently ended one, and no other.
C26_CurrentAndLastEnded ==
    ePc # "start" =>
        \A l \in Leagues : \A c \in SeasonSet(l) :
            (/\ c.is_current /\ c.start_date # 0 /\ c.end_date # 0
             /\ \A s \in SeasonSet(l) : s.is_current => s.id = c.id
             /\ EndedBefore(l, c) # {}
             /\ SeasonSet(l) = {c} \cup EndedBefore(l, c) \cup EndsAfter(l, c))
                => \E m \in EndedBefore(l, c) :
                      /\ \A s \in EndedBefore(l, c) : s.end_date <= m.end_date
                      /\ KeptIds(l) = {c.id, m.id}

\* no league keeps more than two seasons, and none of another league; holds.
KeepAtMostTwo ==
    ePc # "start" =>
        \A l \in Leagues :
            /\ Len(eKeep[l]) = Min(2, Cardinality(SeasonSet(l)))
            /\ Cardinality(KeptIds(l)) = Len(eKeep[l])
            /\ KeptIds(l) \subseteq {s.id : s \in SeasonSet(l)}

\* a season flagged current is kept when the league has one, the one of the
\* latest end date when it has several; holds.
KeepsCurrent ==
    ePc # "start" =>
        \A l \in Leagues :
            (\E c \in SeasonSet(l) : c.is_current)
                => \E c \in SeasonSet(l) :
                      /\ c.is_current /\ c.id = eKeep[l][1]
                      /\ \A s \in SeasonSet(l) : s.is_current => KeyGE(c, s)

\* the other season kept is the one of the latest end date among the rest,
\* ended or not; holds.
KeepsLatestOther ==
    ePc # "start" =>
        \A l \in Leagues :
            Len(eKeep[l]) = 2 =>
                \A s \in SeasonSet(l) : \A m \in SeasonSet(l) :
                    (m.id = eKeep[l][2] /\ s.id \notin KeptIds(l)) => KeyGE(m, s)

\* C27: the deletes remove from the export only fixtures of a league whose
\* season is not among the seasons kept of that league; a fixture of a kept
\* season stays, and the primary store is as it was.
C27_PruneOnlyOutOfScope ==
    /\ \A f \in eDeleted :
          /\ f.season_id \notin KeptIds(f.league_id)
          /\ f \notin eExport
    /\ eExport \cup eDeleted = FixturesOf(eRows)
    /\ ePc # "start" =>
          \A f \in FixturesOf(eRows) :
              f.season_id \in KeptIds(f.league_id) => f \in eExport
    /\ ePrimary = FixturesOf(eRows)

C27_Witness ==
    /\ ePc = "done" /\ ~eDryRun
    /\ \E f \in eDeleted : f.league_id = 2
    /\ \E f \in eDeleted : f.league_id = 1
    /\ \E f \in eExport : f.league_id = 2 /\ f.season_id \in KeptIds(2)

\* a dry run deletes nothing; holds.
DryRunDeletesNothing == eDryRun => eDeleted = {}

\* C26 of the leagues whose other seasons all ended before the current one
\* began; holds.
CurrentAndLastEndedWithoutLaterSeason ==
    ePc # "start" =>
        \A l \in Leagues : \A c \in SeasonSet(l) :
            (/\ c.is_current /\ c.start_date # 0 /\ c.end_date # 0
             /\ \A s \in SeasonSet(l) : s.is_current => s.id = c.id
             /\ EndedBefore(l, c) # {}
             /\ SeasonSet(l) = {c} \cup EndedBefore(l, c))
                => \E m \in EndedBefore(l, c) :
                      /\ \A s \in EndedBefore(l, c) : s.end_date <= m.end_date
                      /\ KeptIds(l) = {c.id, m.id}

----------------------------------------------------------------------------
(* Claims about team and player form. *)

\* the fixtures of the entity that have both scores
ScoredFixtures == {i \in DOMAIN mFixtures : HasScores(mFixtures[i])}

\* C28: with no qualifying fixture (none with both scores) the call returns
\* None and the Form row of (entity, sample size) is as it was, none being
\* created.
C28_NoFixturesNoWrite ==
    (mPc = "done" /\ ScoredFixtures = {}) => (mResult = NoForm /\ mForm = mOld)

\* C28 of compute_team_form, and of either call when the query finds no
\* row; holds.
NoRowsNoWrite ==
    (mPc = "done" /\ (mKind = "team" \/ Found(mKind, mFixtures) = {}) /\ ScoredFixtures = {})
        => (mResult = NoForm /\ mForm = mOld)

\* C29: the fixtures of the Form row are the sample_size most recent
\* fixtures with both scores (all of them when fewer exist), newest first.
C29_SampleIsLatestScored ==
    mPc = "done" =>
        /\ ScoredFixtures # {} => mResult # NoForm
        /\ mResult # NoForm =>
              mResult.raw_fixtures \in QueryRows(mFixtures, ScoredFixtures, mSample)

\* C29 of compute_team_form; holds.
TeamSampleIsLatestScored ==
    (mPc = "done" /\ mKind = "team") =>
        /\ ScoredFixtures # {} => mResult # NoForm
        /\ mResult # NoForm =>
              mResult.raw_fixtures \in QueryRows(mFixtures, ScoredFixtures, mSample)

\* compute_player_form takes the latest dated appearances, scored or not;
\* holds.
PlayerSampleIsLatestDated ==
    (mPc = "done" /\ mKind = "player" /\ mResult # NoForm) =>
        mResult.raw_fixtures
            \in QueryRows(mFixtures, {i \in DOMAIN mFixtures : mFixtures[i].starting_at # 0},
                          mSample)

\* a call that returns None writes nothing, for teams and for players; holds.
NoneReturnedNoWrite ==
    (mPc = "done" /\ mResult = NoForm) => mForm = mOld

----------------------------------------------------------------------------
(* Claims about rate_over. *)

\* the non-null values, by position
NonNull == {i \in DOMAIN vValues : vValues[i] # NoValue}

\* the positions whose value meets or exceeds the line
Hits == {i \in NonNull : 2 * vValues[i] >= vLine2}

RECURSIVE Total(_)
Total(S) == IF S = {} THEN 0
            ELSE LET i == CHOOSE i \in S : TRUE IN vValues[i] + Total(S \ {i})

\* C30: of n >= 1 non-null values, the hit-rate given is (values that meet
\* or exceed the line) / n and the average is (sum of values) / n; the
\* sample [3,1,4,1,5,9,2,6] with line 2.5 gives 5/8 and 31/8.
C30_HitRateAndAverage ==
    (vPc = "done" /\ vResult.kind = "value" /\ NonNull # {}) =>
        /\ vResult.total = Cardinality(NonNull)
        /\ vResult.pct[1] * Cardinality(NonNull) = Cardinality(Hits) * vResult.pct[2]
        /\ vResult.avg[1] * Cardinality(NonNull) = Total(NonNull) * vResult.avg[2]
        /\ vResult.pct[2] > 0 /\ vResult.avg[2] > 0
        /\ (vValues = ExampleValues /\ vLine2 = 5)
              => (vResult.pct = <<5, 8>> /\ vResult.avg = <<31, 8>>)

C30_Witness ==
    /\ vPc = "done" /\ vValues = ExampleValues /\ vLine2 = 5
    /\ vResult.kind = "value" /\ vResult.pct = <<5, 8>>

\* a rate is given whenever there are at least min_samples non-null values
\* and one at least; holds.
RateGiven ==
    (vPc = "done" /\ NonNull # {} /\ Cardinality(NonNull) >= vMin)
        => vResult.kind = "value"

\* the two rate_over agree wherever the one of team_value_bets.py gives a
\* rate; holds.
RateOverAgree ==
    (vPc = "done" /\ TeamRateOver(vValues, vLine2, vMin).kind = "value")
        => TeamRateOver(vValues, vLine2, vMin) = PlayerRateOver(vValues, vLine2, vMin)

\* C31: rate_over returns None whenever fewer than min_samples values are
\* non-null; no hit-rate is computed on fewer than min_samples samples.
C31_MinSamplesGate ==
    (vPc = "done" /\ Cardinality(NonNull) < vMin) => vResult.kind = "None"

\* C31 of the rate_over of team_value_bets.py; holds.
TeamMinSamplesGate ==
    (vPc = "done" /\ vImpl = "team" /\ Cardinality(NonNull) < vMin)
        => vResult.kind = "None"

\* the rate_over of player_one_shot_value_bets.py never returns None; holds.
PlayerRateNeverNone ==
    (vPc = "done" /\ vImpl = "player") => vResult.kind = "value"

----------------------------------------------------------------------------
(* Claims about the best-of-sample-sizes selectors. *)

\* the non-null values in the window of the k-th sample size
WindowNonNull(k) ==
    {i \in 1..Min(bSizes[k], Len(bFixtures)) : bFixtures[i] # NoValue}

\* the window of the k-th sample size meets the minimum-sample floor
Qualifies(k) == Cardinality(WindowNonNull(k)) >= bMin

\* the hit-rate of the k-th sample size, 0 over an empty window
WindowRate(k) ==
    <<Cardinality({i \in WindowNonNull(k) : 2 * bFixtures[i] >= bLine2}),
      Max(Cardinality(WindowNonNull(k)), 1)>>

\* the result is the one of the first of the sizes in Q with the highest
\* hit-rate among Q
FirstBestAmong(Q) ==
    \E k \in Q :
        /\ bBest.sample_size = bSizes[k]
        /\ FracGE(bBest.pct, WindowRate(k)) /\ FracGE(WindowRate(k), bBest.pct)
        /\ bBest.total = Cardinality(WindowNonNull(k))
        /\ \A j \in Q : FracGE(WindowRate(k), WindowRate(j))
        /\ \A j \in Q : j < k => FracGT(WindowRate(k), WindowRate(j))

QualifyingSizes == {k \in DOMAIN bSizes : Qualifies(k)}

\* C32: the selector returns the result of the highest hit-rate among the
\* sample sizes whose window meets the floor, the size tested first on a tie,
\* and None only when no size qualifies.
C32_BestOfQualifying ==
    bPc = "done" =>
        /\ bBest.kind = "None" => QualifyingSizes = {}
        /\ bBest.kind = "value" => FirstBestAmong(QualifyingSizes)

\* C32 of select_best_rate of team_value_bets.py; holds.
TeamBestOfQualifying ==
    (bPc = "done" /\ bImpl = "team") =>
        /\ bBest.kind = "None" <=> QualifyingSizes = {}
        /\ bBest.kind = "value" => FirstBestAmong(QualifyingSizes)

\* best_rate of player_one_shot_value_bets.py returns the first best of all
\* the sizes, whether their windows meet the floor or not; holds.
PlayerBestOfAll ==
    (bPc = "done" /\ bImpl = "player") =>
        bBest.kind = "value" /\ FirstBestAmong(DOMAIN bSizes)

\* a tie of two qualifying sizes is returned as the size tested first; holds.
TieKeepsFirst ==
    (/\ bPc = "done" /\ Len(bSizes) = 2 /\ Qualifies(1) /\ Qualifies(2)
     /\ WindowNonNull(1) # {}
     /\ FracGE(WindowRate(1), WindowRate(2)) /\ FracGE(WindowRate(2), WindowRate(1)))
        => bBest.sample_size = bSizes[1]

----------------------------------------------------------------------------
(* Claims about the Form tables. *)

\* the tables a bulk run leaves on a store without Form rows
FreshTables == BulkLoop(NoTables, aFixtures, SampleSizes(aSizes))

\* the tables hold the data of every row of `fresh`
HoldsDataOf(fresh) ==
    /\ \A i \in DOMAIN fresh.team :
          \E j \in DOMAIN aTeamForms : aTeamForms[j].data = fresh.team[i].data
    /\ \A i \in DOMAIN fresh.player :
          \E j \in DOMAIN aPlayerForms : aPlayerForms[j].data = fresh.player[i].data

\* C33: a bulk run on an unchanged store, with the same sample sizes, leaves
\* every Form row as the run before left it and adds no row; the values a
\* run writes are those a run on empty tables writes, whatever the rows held.
C33_BulkIdempotent ==
    /\ (aLast = "bulk" /\ aErr = "none") => HoldsDataOf(FreshTables)
    /\ Len(aPrev) >= 2 =>
          /\ aTeamForms = aPrev[Len(aPrev)].team
          /\ aPlayerForms = aPrev[Len(aPrev)].player

\* a second run has passed over rows that the first run had changed
C33_Witness ==
    /\ Len(aPrev) = 2 /\ aErr = "none"
    /\ aPrev[1].team # <<>> /\ aPrev[1].player # <<>>
    /\ Len(aPrev[1].team) = Len(aTeamForms)
    /\ \E i \in DOMAIN aTeamForms : aPrev[1].team[i].data # aTeamForms[i].data
    /\ \E i \in DOMAIN aPlayerForms :
          /\ i \in DOMAIN aPrev[1].player
          /\ aPrev[1].player[i].data # aPlayerForms[i].data

\* no two rows of a Form table have one (entity, sample_size)
OneRowPerKey ==
    /\ \A i, j \in DOMAIN aTeamForms :
          (/\ aTeamForms[i].data.team_id = aTeamForms[j].data.team_id
           /\ aTeamForms[i].data.sample_size = aTeamForms[j].data.sample_size)
              => i = j
    /\ \A i, j \in DOMAIN aPlayerForms :
          (/\ aPlayerForms[i].data.player_id = aPlayerForms[j].data.player_id
           /\ aPlayerForms[i].data.sample_size = aPlayerForms[j].data.sample_size)
              => i = j

\* C34: after any sequence of compute_team_form, compute_player_form and
\* bulk_compute_forms there is at most one TeamForm row per (team_id,
\* sample_size) and one PlayerForm row per (player_id, sample_size), and no
\* call has run into the unique constraint.
C34_OneRowPerKey == OneRowPerKey /\ aErr = "none"

\* a bulk run has come to a key that had its row from a call of
\* compute_team_form, and has added the row of the other team
C34_Witness ==
    /\ aOps = 2 /\ aLast = "bulk"
    /\ Len(aPrev) = 1 /\ Len(aPrev[1].team) = 1
    /\ aPrev[1].team[1].data.sample_size \in aSizes
    /\ Len(aTeamForms) = 2

Sum2(a, b) == Quotient(a[1] * b[2] + b[1] * a[2], a[2] * b[2])

\* pct of games_played games is a whole number of games
Games(pct, games_played) == (pct[1] * games_played) \div pct[2]

WholeGames(pct, games_played) == (pct[1] * games_played) % pct[2] = 0

\* C38: in every TeamForm row wins + draws + losses = games_played, over-2.5
\* games + under-2.5 games = games_played, the percentages of each sum to 1,
\* and 1 <= games_played <= sample_size.
C38_OutcomesPartition ==
    \A i \in DOMAIN aTeamForms :
        LET r == aTeamForms[i].data
            g == r.games_played
        IN  /\ 1 <= g /\ g <= r.sample_size
            /\ \A f \in {"win_pct", "draw_pct", "loss_pct", "over_2_5_pct", "under_2_5_pct"} :
                  WholeGames(r[f], g)
            /\ Games(r.win_pct, g) + Games(r.draw_pct, g) + Games(r.loss_pct, g) = g
            /\ Games(r.over_2_5_pct, g) + Games(r.under_2_5_pct, g) = g
            /\ Sum2(Sum2(r.win_pct, r.draw_pct), r.loss_pct) = <<1, 1>>
            /\ Sum2(r.over_2_5_pct, r.under_2_5_pct) = <<1, 1>>
            /\ g = Len(r.raw_fixtures)

\* a row of two games, a draw and a game won or lost, one of them over 2.5
C38_Witness ==
    \E i \in DOMAIN aTeamForms :
        LET r == aTeamForms[i].data
        IN  /\ r.games_played = 2 /\ r.sample_size = 2
            /\ r.draw_pct = <<1, 2>>
            /\ r.over_2_5_pct = <<1, 2>>

\* C39: in every PlayerForm row 1 >= shots_ge_1_pct >= shots_ge_2_pct >=
\* shots_ge_3_pct >= 0, shots_on_ge_1_pct >= shots_on_ge_2_pct and
\* goals_ge_1_pct >= goals_ge_2_pct.
C39_ThresholdsMonotone ==
    \A i \in DOMAIN aPlayerForms :
        LET r == aPlayerForms[i].data
        IN  /\ FracGE(<<1, 1>>, r.shots_ge_1_pct)
            /\ FracGE(r.shots_ge_1_pct, r.shots_ge_2_pct)
            /\ FracGE(r.shots_ge_2_pct, r.shots_ge_3_pct)
            /\ FracGE(r.shots_ge_3_pct, <<0, 1>>)
            /\ FracGE(r.shots_on_ge_1_pct, r.shots_on_ge_2_pct)
            /\ FracGE(r.goals_ge_1_pct, r.goals_ge_2_pct)
            /\ r.shots_ge_1_pct[2] > 0

\* a row of two games with one, two and three shots reached in fewer and
\* fewer of them
C39_Witness ==
    \E i \in DOMAIN aPlayerForms :
        LET r == aPlayerForms[i].data
        IN  /\ r.games_played = 2
            /\ r.shots_ge_1_pct = <<1, 1>>
            /\ r.shots_ge_2_pct = <<1, 2>>
            /\ r.shots_ge_3_pct = <<0, 1>>
            /\ FracGT(r.shots_on_ge_1_pct, r.shots_on_ge_2_pct)
            /\ FracGT(r.goals_ge_1_pct, r.goals_ge_2_pct)

----------------------------------------------------------------------------
(* Claims about normalize_odds. *)

\* the outcomes that map to the key
MapTo(key) == {i \in DOMAIN nOutcomes : LatestKey(nOutcomes[i]) = key}

\* those of them updated last
LastUpdated(key) ==
    {i \in MapTo(key) :
        \A j \in MapTo(key) : nOutcomes[j].updated_at <= nOutcomes[i].updated_at}

\* those of them updated first
FirstUpdated(key) ==
    {i \in MapTo(key) :
        \A j \in MapTo(key) : nOutcomes[j].updated_at >= nOutcomes[i].updated_at}

\* C35: after normalize_odds each row of odds_latest carries the decimal odds
\* of the most recently updated outcome among those that map to its key.
C35_LatestOdds ==
    nPc = "done" =>
        \A i \in DOMAIN nLatest :
            \E o \in LastUpdated(nLatest[i].key) :
                nLatest[i].decimal_odds = nOutcomes[o].decimal_odds

\* the rows are set in the order of the query, newest first, so a row of
\* odds_latest is left with the outcome updated first; holds.
LatestIsOldest ==
    nPc = "done" =>
        \A i \in DOMAIN nLatest :
            \E o \in FirstUpdated(nLatest[i].key) :
                nLatest[i].decimal_odds = nOutcomes[o].decimal_odds

\* there is one row of odds_latest for every key and none else; holds.
OneLatestPerKey ==
    nPc = "done" =>
        /\ \A i, j \in DOMAIN nLatest : nLatest[i].key = nLatest[j].key => i = j
        /\ {nLatest[i].key : i \in DOMAIN nLatest}
              = {LatestKey(nOutcomes[o]) : o \in DOMAIN nOutcomes}

----------------------------------------------------------------------------
(* More claims about the resumable stream. *)

\* C36: in every committed state the record whose id the cursor holds has
\* its row committed: the cursor is never ahead of the data.
C36_CursorNotAhead == sCursor # 0 => sCursor \in sRows

\* a run was interrupted in the middle of a page, with a cursor committed
C36_Witness ==
    /\ sPc = "idle" /\ sMidPage
    /\ sCursor # 0 /\ sCursor \in sRows
    /\ sCursor < sNum

\* every commit of a record is the commit of the cursor at that record; holds.
CursorIsLastCommitted ==
    sDone # <<>> => sCursor = sDone[Len(sDone)]

----------------------------------------------------------------------------
(* More claims about sync_history_window. *)

\* no more than the limit is stored
TotalWithinLimit == hLimit # NoLimit => hTotal <= hLimit

\* once the limit is reached no chunk pass is issued
NoPassAtLimit ==
    [][(hLimit # NoLimit /\ hTotal >= hLimit) => hChunks' = hChunks]_vars

\* every chunk pass moves the cursor on
CursorAdvances == [][hChunks' # hChunks /\ hPc' = "loop" => hCursor' > hCursor]_vars

\* C37: with a limit L, sync_history_window stores at most L fixtures over
\* all chunks and issues no chunk pass once L is reached; the cursor moves on
\* with every chunk and the loop comes to its end.
C37_LimitAndTermination ==
    /\ []TotalWithinLimit
    /\ NoPassAtLimit
    /\ CursorAdvances
    /\ <>(hPc # "loop")

\* the limit was reached in the second chunk, with days of the window left
C37_Witness ==
    /\ hPc = "returned"
    /\ hLimit > 0 /\ hTotal = hLimit
    /\ Len(hChunks) = 2 /\ hCursor <= hEnd

====
